---- MODULE Spec2Model ----
(***************************************************************************)
(* Verification model of braid_axum_http.                                  *)
(*                                                                         *)
(*   SpecParser : client/parser.rs, MessageParser fed a byte stream in     *)
(*                chunks.                                                  *)
(*   SpecFetch  : client/fetch.rs, BraidClient::fetch and its retry loop.  *)
(*                                                                         *)
(* Bytes are their numeric values (13 = CR, 10 = LF, 58 = ':', ...).       *)
(***************************************************************************)
EXTENDS Integers, Sequences, FiniteSets, TLC

(***************************************************************************)
(* Bounds of the model.                                                    *)
(***************************************************************************)
\* number of frames concatenated into one input stream
MaxFrames == 2

\* largest chunk that ends inside a header block or inside a body; a chunk
\* that ends on the end of a header block or of a frame has any length
MaxChunk == 3

\* largest configured ClientConfig.max_retries (above the backoff cap of 10)
MaxRetriesBound == 12
MaxBase == 9
MaxAttempt == 12
MaxCalls == 3
MaxClock == 1
MaxManagers == 2
BurstLen == 102

(***************************************************************************)
(* Byte-string helpers (std library functions used by parse_headers).      *)
(***************************************************************************)
\* b"\r\n\r\n"
Terminator == <<13, 10, 13, 10>>

\* "content-length"
ContentLengthKey == <<99, 111, 110, 116, 101, 110, 116, 45, 108, 101, 110, 103, 116, 104>>

\* char::to_lowercase on the ASCII range
LowerByte(b) == IF b >= 65 /\ b <= 90 THEN b + 32 ELSE b

to_lowercase(s) == [i \in 1..Len(s) |-> LowerByte(s[i])]

\* char::is_whitespace on the ASCII range: \t \n \v \f \r and space
IsWhitespace(b) == b \in {9, 10, 11, 12, 13, 32}

RECURSIVE TrimStart(_)
TrimStart(s) ==
    IF s # <<>> /\ IsWhitespace(Head(s)) THEN TrimStart(Tail(s)) ELSE s

RECURSIVE TrimEnd(_)
TrimEnd(s) ==
    IF s # <<>> /\ IsWhitespace(s[Len(s)])
    THEN TrimEnd(SubSeq(s, 1, Len(s) - 1))
    ELSE s

\* str::trim
trim(s) == TrimEnd(TrimStart(s))

\* str::find(byte): 1-based index of the first occurrence, 0 when absent
find(s, b) ==
    IF \E i \in 1..Len(s) : s[i] = b
    THEN CHOOSE i \in 1..Len(s) : s[i] = b /\ \A j \in 1..(i - 1) : s[j] # b
    ELSE 0

\* str::lines: split at every \n, drop the \n and one \r before it; a last
\* line without \n is yielded as it is, an empty rest yields nothing
RECURSIVE lines(_)
lines(s) ==
    IF s = <<>> THEN <<>>
    ELSE LET nl == find(s, 10) IN
         IF nl = 0 THEN <<s>>
         ELSE LET l == SubSeq(s, 1, nl - 1)
                  stripped == IF l # <<>> /\ l[Len(l)] = 13
                              THEN SubSeq(l, 1, Len(l) - 1) ELSE l
              IN <<stripped>> \o lines(SubSeq(s, nl + 1, Len(s)))

\* String::from_utf8 succeeds; the byte alphabet of the model is ASCII plus
\* 0xFF, and 0xFF occurs in no valid UTF-8 text
IsUtf8(s) == \A i \in 1..Len(s) : s[i] < 128

RECURSIVE DigitsValue(_)
DigitsValue(d) ==
    IF d = <<>> THEN 0
    ELSE 10 * DigitsValue(SubSeq(d, 1, Len(d) - 1)) + (d[Len(d)] - 48)

\* a number parser that takes the digits 1 to 9 only
ParseUsize_without_zero(s) ==
    LET d == IF s # <<>> /\ s[1] = 43 THEN Tail(s) ELSE s IN
    IF d # <<>> /\ \A i \in 1..Len(d) : d[i] \in 49..57
    THEN [ok |-> TRUE, value |-> DigitsValue(d)]
    ELSE [ok |-> FALSE, value |-> 0]

\* str::parse::<usize>: an optional '+', then one or more decimal digits
\* (the digit strings of the model are far below usize::MAX)
ParseUsize(s) ==
    LET d == IF s # <<>> /\ s[1] = 43 THEN Tail(s) ELSE s IN
    IF d # <<>> /\ \A i \in 1..Len(d) : d[i] \in 48..57
    THEN [ok |-> TRUE, value |-> DigitsValue(d)]
    ELSE [ok |-> FALSE, value |-> 0]

(***************************************************************************)
(* MessageParser (client/parser.rs).                                       *)
(***************************************************************************)
\* BTreeMap::new()
EmptyHeaders == [k \in {} |-> <<>>]

\* BTreeMap::insert
MapInsert(h, key, value) ==
    [k \in (DOMAIN h) \cup {key} |-> IF k = key THEN value ELSE h[k]]

\* MessageParser::new
NewParser ==
    [buffer |-> <<>>,
     state |-> "WaitingForHeaders",
     headers |-> EmptyHeaders,
     body_buffer |-> <<>>,
     expected_body_length |-> 0,
     read_body_length |-> 0,
     patches |-> <<>>]

\* MessageParser::find_header_end: rposition takes the LAST window equal to
\* the terminator; the result is the number of bytes up to and including it
\* (0 stands for None)
find_header_end(buffer) ==
    LET hits == {i \in 1..(Len(buffer) - 3) : SubSeq(buffer, i, i + 3) = Terminator}
    IN IF hits = {} THEN 0
       ELSE (CHOOSE i \in hits : \A j \in hits : j <= i) + 3

\* the for loop of parse_headers: one insert per line that has a colon
RECURSIVE InsertLines(_, _)
InsertLines(h, ls) ==
    IF ls = <<>> THEN h
    ELSE LET line == Head(ls)
             colon_pos == find(line, 58)
         IN IF colon_pos = 0 THEN InsertLines(h, Tail(ls))
            ELSE InsertLines(
                    MapInsert(h,
                              to_lowercase(trim(SubSeq(line, 1, colon_pos - 1))),
                              trim(SubSeq(line, colon_pos + 1, Len(line)))),
                    Tail(ls))

\* MessageParser::parse_headers: the header bytes leave the buffer before
\* anything can fail; the inserted headers stay in the map when the
\* content-length value does not parse
parse_headers(p, end) ==
    LET header_bytes == SubSeq(p.buffer, 1, end)
        rest == SubSeq(p.buffer, end + 1, Len(p.buffer))
        header_str == SubSeq(header_bytes, 1, Len(header_bytes) - 4)
        p1 == [p EXCEPT !.buffer = rest]
    IN IF ~IsUtf8(header_str) THEN [parser |-> p1, result |-> "Utf8"]
       ELSE LET h == InsertLines(p.headers, lines(header_str))
                p2 == [p1 EXCEPT !.headers = h]
            IN IF ContentLengthKey \in DOMAIN h
               THEN LET n == ParseUsize(h[ContentLengthKey]) IN
                    IF n.ok
                    THEN [parser |-> [p2 EXCEPT !.expected_body_length = n.value],
                          result |-> "Ok"]
                    ELSE [parser |-> p2, result |-> "HeaderParse"]
               ELSE [parser |-> p2, result |-> "Ok"]

\* MessageParser::try_parse_body.  checks is the build's overflow-checks
\* setting: expected_body_length - read_body_length with read > expected
\* panics when it is on and wraps to 2^64 - (read - expected) when it is off;
\* no buffer of the model is that long, so the wrapped case takes the else
\* branch.  The else branch adds the length of the WHOLE body_buffer to
\* read_body_length.
try_parse_body(p, checks) ==
    IF p.expected_body_length = 0 THEN [parser |-> p, result |-> "true"]
    ELSE IF p.read_body_length > p.expected_body_length /\ checks
    THEN [parser |-> p, result |-> "Panic"]
    ELSE LET wrapped == p.read_body_length > p.expected_body_length
             remaining == p.expected_body_length - p.read_body_length
         IN IF ~wrapped /\ Len(p.buffer) >= remaining
            THEN [parser |->
                    [p EXCEPT !.buffer = SubSeq(p.buffer, remaining + 1, Len(p.buffer)),
                              !.body_buffer = p.body_buffer \o SubSeq(p.buffer, 1, remaining),
                              !.read_body_length = p.read_body_length + remaining],
                  result |-> "true"]
            ELSE LET bb == p.body_buffer \o p.buffer IN
                 [parser |->
                    [p EXCEPT !.buffer = <<>>,
                              !.body_buffer = bb,
                              !.read_body_length = p.read_body_length + Len(bb)],
                  result |-> "false"]

\* MessageParser::finalize_message: the Message built from the accumulators
finalize_message(p) ==
    [headers |-> p.headers, body |-> p.body_buffer, patches |-> p.patches]

\* MessageParser::reset
reset(p) ==
    [p EXCEPT !.headers = EmptyHeaders,
              !.body_buffer = <<>>,
              !.expected_body_length = 0,
              !.read_body_length = 0,
              !.patches = <<>>]

\* the loop of MessageParser::feed; an error return drops the Messages
\* collected so far in this call
RECURSIVE FeedLoop(_, _, _)
FeedLoop(p, messages, checks) ==
    IF p.state = "WaitingForHeaders"
    THEN LET pos == find_header_end(p.buffer) IN
         IF pos = 0 THEN [parser |-> p, messages |-> messages, result |-> "Ok"]
         ELSE LET r == parse_headers(p, pos) IN
              IF r.result # "Ok"
              THEN [parser |-> r.parser, messages |-> <<>>, result |-> r.result]
              ELSE FeedLoop([r.parser EXCEPT !.state = "WaitingForBody"],
                            messages, checks)
    ELSE IF p.state = "WaitingForBody"
    THEN LET r == try_parse_body(p, checks) IN
         IF r.result = "Panic"
         THEN [parser |-> r.parser, messages |-> <<>>, result |-> "Panic"]
         ELSE IF r.result = "true"
         THEN FeedLoop([reset(r.parser) EXCEPT !.state = "WaitingForHeaders"],
                       Append(messages, finalize_message(r.parser)), checks)
         ELSE [parser |-> r.parser, messages |-> messages, result |-> "Ok"]
    ELSE [parser |-> p, messages |-> messages, result |-> "Ok"]

\* MessageParser::feed
feed(p, data, checks) ==
    FeedLoop([p EXCEPT !.buffer = p.buffer \o data], <<>>, checks)

(***************************************************************************)
(* The byte stream given to the parser: a concatenation of frames, each a  *)
(* header block with its terminator followed by a body.                    *)
(***************************************************************************)
\* "v:1\r\ncontent-length:5" + terminator, body "hello"
FrameBody5 ==
    [head |-> <<118, 58, 49, 13, 10>> \o ContentLengthKey \o <<58, 53>> \o Terminator,
     body |-> <<104, 101, 108, 108, 111>>]

\* "Content-Length: 0" + terminator, no body
FrameEmpty ==
    [head |-> <<67, 111, 110, 116, 101, 110, 116, 45, 76, 101, 110, 103, 116, 104, 58, 32, 48>>
              \o Terminator,
     body |-> <<>>]

\* "w:2" + terminator: no content-length header, no body
FrameNoLen == [head |-> <<119, 58, 50>> \o Terminator, body |-> <<>>]

\* "content-length:x" + terminator: a content-length that is not a number
FrameBadLen == [head |-> ContentLengthKey \o <<58, 120>> \o Terminator, body |-> <<>>]

\* "content-length:4" + terminator, whose body is the four bytes \r\n\r\n
FrameTermBody == [head |-> ContentLengthKey \o <<58, 52>> \o Terminator, body |-> Terminator]

\* a header block that is not UTF-8: 0xFF ":1" + terminator
FrameNonUtf8 == [head |-> <<255, 58, 49>> \o Terminator, body |-> <<>>]

FrameSet == {FrameBody5, FrameEmpty, FrameNoLen, FrameBadLen, FrameTermBody, FrameNonUtf8}

\* the frames whose header block is text with a numeric (or no) content-length
WellFormedFrames == {FrameBody5, FrameEmpty, FrameNoLen, FrameTermBody}

FrameSeqs == UNION {[1..n -> FrameSet] : n \in 1..MaxFrames}

RECURSIVE Wire(_)
Wire(fs) == IF fs = <<>> THEN <<>> ELSE Head(fs).head \o Head(fs).body \o Wire(Tail(fs))

(***************************************************************************)
(* State.                                                                  *)
(***************************************************************************)
VARIABLES
    frames,           \* the frames the stream was built from
    input,            \* the whole byte stream
    fed,              \* number of bytes of input given to feed so far
    parser,           \* the MessageParser
    emitted,          \* the Messages returned so far, over all feed calls
    last,             \* result and Message count of the latest feed call
    header_error,     \* history: some feed call returned a HeaderParse error
    overflow_checks,  \* the build: integer overflow panics (TRUE) or wraps
    config,           \* ClientConfig: max_retries, retry_delay_ms
    pc,               \* where fetch_with_retries stands
    attempt,          \* the attempt counter of fetch_with_retries
    sent,             \* number of requests put on the wire by this fetch
    outcome,          \* what the transport gave to the latest attempt
    delay,            \* the backoff delay computed for the pending sleep
    sleeps,           \* the delays slept so far, in order
    result,           \* what fetch returned to its caller
    backoff_base,     \* the base delay given to exponential_backoff
    backoff_delays,   \* exponential_backoff(n, backoff_base) for n = 0, 1, ... so far
    status_in,        \* the status given to is_retryable_status
    status_retryable, \* its answers so far: none, or one boolean
    sub,              \* the subscribe call: where it stands, what it returned
    server,           \* the response byte stream: open, ended or failed
    channel,          \* the mpsc channel between forwarding task and Subscription
    task,             \* the forwarding task: where it stands, what it has yet to push
    pushed,           \* history: the items the channel accepted, in order
    delivered,        \* history: the items next() returned, in order
    got_none,         \* history: next() has returned None
    resources,        \* the registry map: resource id -> the Arc of its ResourceState
    objects,          \* every ResourceState constructed so far, by Arc
    resources_lock,   \* the RwLock around the map: its writer and its readers
    tasks,            \* the tasks that call the manager: position, arguments, locals
    managers,         \* the number of ResourceStateManager handles (the first + clones)
    clock,            \* SystemTime::now()
    calls,            \* the number of manager calls started
    returned,         \* history: the (resource id, Arc) pairs get_or_create_resource returned
    state_locks,      \* the RwLock around each ResourceState: its writers and its readers
    last_return,      \* history: the manager call that returned last, and what it returned
    codec_in,         \* the argument a header function is called with
    codec_out         \* <<>> before the call, <<what it returned>> after it

parserVars == <<frames, input, fed, parser, emitted, last, header_error, overflow_checks>>
fetchVars == <<config, pc, attempt, sent, outcome, delay, sleeps, result>>
utilVars == <<backoff_base, backoff_delays, status_in, status_retryable>>
subVars == <<sub, server, channel, task, pushed, delivered, got_none>>
regVars == <<resources, objects, resources_lock, tasks, managers, clock, calls, returned,
            state_locks, last_return>>
codecVars == <<codec_in, codec_out>>
vars == <<frames, input, fed, parser, emitted, last, header_error, overflow_checks,
          config, pc, attempt, sent, outcome, delay, sleeps, result,
          backoff_base, backoff_delays, status_in, status_retryable,
          sub, server, channel, task, pushed, delivered, got_none,
          resources, objects, resources_lock, tasks, managers, clock, calls, returned,
          state_locks, last_return, codec_in, codec_out>>

\* what an action of one component leaves alone
nonParserVars == <<fetchVars, utilVars, subVars, regVars, codecVars>>
nonFetchVars == <<parserVars, utilVars, subVars, regVars, codecVars>>
nonUtilVars == <<parserVars, fetchVars, subVars, regVars, codecVars>>
nonSubVars == <<last, header_error, fetchVars, utilVars, regVars, codecVars>>
nonRegVars == <<parserVars, fetchVars, utilVars, subVars, codecVars>>
nonCodecVars == <<parserVars, fetchVars, utilVars, subVars, regVars>>

NoOutcome == [kind |-> "none"]
NoResult == [kind |-> "none"]

\* no parser has been fed
ParserIdle ==
    /\ frames = <<>>
    /\ input = <<>>
    /\ fed = 0
    /\ parser = NewParser
    /\ emitted = <<>>
    /\ last = [result |-> "None", count |-> 0]
    /\ header_error = FALSE

\* no utility function has been called
CodecIdle ==
    /\ codec_in = <<>>
    /\ codec_out = <<>>

UtilIdle ==
    /\ backoff_base = 0
    /\ backoff_delays = <<>>
    /\ status_in = 0
    /\ status_retryable = <<>>

\* no channel: its fields read as those of a channel without ends
NoChannel ==
    [created |-> FALSE, queue |-> <<>>, tx_open |-> FALSE, rx_open |-> FALSE,
     discarded |-> 0, woken |-> FALSE]
NoTask == [pc |-> "none", pending |-> <<>>, exit |-> "none"]

\* no subscribe call has been made
SubIdle ==
    /\ sub = [pc |-> "idle", status |-> 0, result |-> NoResult]
    /\ server = "open"
    /\ channel = NoChannel
    /\ task = NoTask
    /\ pushed = <<>>
    /\ delivered = <<>>
    /\ got_none = FALSE

\* the number of tasks that hold a handle to the manager
NumTasks == 2
Tasks == 1..NumTasks

NoResources == [id \in {} |-> 0]
NoLock == [writers |-> {}, readers |-> {}]
IdleTask ==
    [pc |-> "idle", op |-> "", via |-> 0, resource_id |-> "", agent_id |-> "",
     text |-> <<>>, vacant |-> FALSE, ret |-> 0]
NoReturn == [op |-> "", resource_id |-> "", out |-> [kind |-> "", value |-> <<>>]]

\* ResourceStateManager::new(): an empty map, nobody inside
RegIdle ==
    /\ resources = NoResources
    /\ objects = <<>>
    /\ resources_lock = NoLock
    /\ tasks = [t \in Tasks |-> IdleTask]
    /\ managers = 1
    /\ clock = 0
    /\ calls = 0
    /\ returned = {}
    /\ state_locks = <<>>
    /\ last_return = NoReturn

\* the client before any fetch
FetchIdle ==
    /\ pc = "idle"
    /\ attempt = 0
    /\ sent = 0
    /\ outcome = NoOutcome
    /\ delay = 0
    /\ sleeps = <<>>
    /\ result = NoResult

InitParser ==
    /\ frames \in FrameSeqs
    /\ input = Wire(frames)
    /\ fed = 0
    /\ parser = NewParser
    /\ emitted = <<>>
    /\ last = [result |-> "None", count |-> 0]
    /\ header_error = FALSE
    /\ overflow_checks \in BOOLEAN
    /\ config = [max_retries |-> 0, retry_delay_ms |-> 0]
    /\ FetchIdle
    /\ UtilIdle
    /\ SubIdle
    /\ RegIdle
    /\ CodecIdle

\* the offsets of the stream at which a header block or a frame ends
Boundaries ==
    {Len(Wire(SubSeq(frames, 1, k - 1))) + Len(frames[k].head) : k \in 1..Len(frames)}
    \cup {Len(Wire(SubSeq(frames, 1, k))) : k \in 1..Len(frames)}

\* the sizes of the next chunk: at least one byte, at most the rest of the
\* stream
ChunkSizes ==
    {n \in 1..(Len(input) - fed) : n <= MaxChunk \/ (fed + n) \in Boundaries}

\* one parser.feed(&chunk) call with the next n bytes of the stream; a panic
\* ends the task that owns the parser
Feed(n) ==
    /\ last.result # "Panic"
    /\ LET r == feed(parser, SubSeq(input, fed + 1, fed + n), overflow_checks) IN
       /\ parser' = r.parser
       /\ emitted' = emitted \o r.messages
       /\ last' = [result |-> r.result, count |-> Len(r.messages)]
       /\ header_error' = (header_error \/ r.result = "HeaderParse")
    /\ fed' = fed + n
    /\ UNCHANGED <<frames, input, overflow_checks>>
    /\ UNCHANGED nonParserVars

NextParser == \E n \in ChunkSizes : Feed(n)

SpecParser == InitParser /\ [][NextParser]_vars

(***************************************************************************)
(* BraidClient::fetch (client/fetch.rs, client/utils.rs).                  *)
(***************************************************************************)
\* the statuses the server of the model answers with
Statuses == {200, 209, 404, 410, 408, 425, 429, 502, 503, 504}

\* what the transport does with one request: send() fails, or a response
\* with a status arrives and reading its body succeeds or fails
TransportOutcomes ==
    {[kind |-> "send_error"]}
    \cup {[kind |-> "response", status |-> s, body_ok |-> b] : s \in Statuses, b \in BOOLEAN}

\* is_retryable_status with 425 (Too Early) left out of the pattern
is_retryable_status_without_425(status) == status \in {408, 429, 502, 503, 504}

\* is_retryable_status: matches!(status, 408 | 425 | 429 | 502 | 503 | 504)
is_retryable_status(status) == status \in {408, 425, 429, 502, 503, 504}

\* exponential_backoff without the cap on the exponent
exponential_backoff_uncapped(n, base_ms) == base_ms * 2 ^ n

\* exponential_backoff, in milliseconds (u64; the products of the model stay
\* far below 2^64)
exponential_backoff(n, base_ms) ==
    base_ms * 2 ^ (IF n < 10 THEN n ELSE 10)

\* BraidError::is_retryable: transport-level errors are retryable, every
\* other kind of error is not
is_retryable(e) == e.kind = "Http"

\* BraidClient::fetch_internal: send() maps only a transport failure to
\* BraidError::Http; a response of ANY status becomes Ok(BraidResponse)
fetch_internal(t) ==
    IF t.kind = "send_error" THEN [kind |-> "Err", error |-> [kind |-> "Http"]]
    ELSE IF ~t.body_ok THEN [kind |-> "Err", error |-> [kind |-> "Http"]]
    ELSE [kind |-> "Ok",
          response |-> [status |-> t.status, is_subscription |-> (t.status = 209)]]

InitFetch ==
    /\ ParserIdle
    /\ overflow_checks \in BOOLEAN
    /\ config \in [max_retries : 0..MaxRetriesBound, retry_delay_ms : {0, 100, 2000}]
    /\ FetchIdle
    /\ UtilIdle
    /\ SubIdle
    /\ RegIdle
    /\ CodecIdle

\* BraidClient::fetch: enters fetch_with_retries with attempt 0
FetchCall ==
    /\ pc = "idle"
    /\ pc' = "sending"
    /\ attempt' = 0
    /\ UNCHANGED <<config, sent, outcome, delay, sleeps, result>>
    /\ UNCHANGED nonFetchVars

\* fetch_with_retries, arm Ok(response): return it
AttemptOk(t) ==
    /\ pc = "sending"
    /\ LET r == fetch_internal(t) IN
       /\ r.kind = "Ok"
       /\ result' = r
    /\ sent' = sent + 1
    /\ outcome' = t
    /\ pc' = "done"
    /\ UNCHANGED <<config, attempt, delay, sleeps>>
    /\ UNCHANGED nonFetchVars

\* fetch_with_retries, arm Err(e) if e.is_retryable() && attempt < max_retries:
\* compute the delay and go to sleep
AttemptRetry(t) ==
    /\ pc = "sending"
    /\ LET r == fetch_internal(t) IN
       /\ r.kind = "Err"
       /\ is_retryable(r.error) /\ attempt < config.max_retries
    /\ delay' = exponential_backoff(attempt, config.retry_delay_ms)
    /\ sent' = sent + 1
    /\ outcome' = t
    /\ pc' = "sleeping"
    /\ UNCHANGED <<config, attempt, sleeps, result>>
    /\ UNCHANGED nonFetchVars

\* fetch_with_retries, arm Err(e): return the error
AttemptFail(t) ==
    /\ pc = "sending"
    /\ LET r == fetch_internal(t) IN
       /\ r.kind = "Err"
       /\ ~(is_retryable(r.error) /\ attempt < config.max_retries)
       /\ result' = r
    /\ sent' = sent + 1
    /\ outcome' = t
    /\ pc' = "done"
    /\ UNCHANGED <<config, attempt, delay, sleeps>>
    /\ UNCHANGED nonFetchVars

\* sleep(delay).await returns; attempt += 1 and the loop sends again
Wake ==
    /\ pc = "sleeping"
    /\ sleeps' = Append(sleeps, delay)
    /\ attempt' = attempt + 1
    /\ pc' = "sending"
    /\ UNCHANGED <<config, sent, outcome, delay, result>>
    /\ UNCHANGED nonFetchVars

NextFetch ==
    \/ FetchCall
    \/ \E t \in TransportOutcomes : AttemptOk(t)
    \/ \E t \in TransportOutcomes : AttemptRetry(t)
    \/ \E t \in TransportOutcomes : AttemptFail(t)
    \/ Wake

SpecFetch == InitFetch /\ [][NextFetch]_vars

(***************************************************************************)
(* The pure functions of client/utils.rs, each applied to inputs drawn     *)
(* from a bounded set.                                                     *)
(***************************************************************************)
\* the largest value of the u16 parameter of is_retryable_status
U16Max == 65535

InitBackoff ==
    /\ ParserIdle
    /\ overflow_checks = FALSE
    /\ config = [max_retries |-> 0, retry_delay_ms |-> 0]
    /\ FetchIdle
    /\ backoff_base \in 0..MaxBase
    /\ backoff_delays = <<>>
    /\ status_in = 0
    /\ status_retryable = <<>>
    /\ SubIdle
    /\ RegIdle
    /\ CodecIdle

\* exponential_backoff(n, backoff_base) for the next attempt number n
Backoff ==
    /\ Len(backoff_delays) <= MaxAttempt
    /\ backoff_delays' =
           Append(backoff_delays, exponential_backoff(Len(backoff_delays), backoff_base))
    /\ UNCHANGED <<backoff_base, status_in, status_retryable>>
    /\ UNCHANGED nonUtilVars

NextBackoff == Backoff

SpecBackoff == InitBackoff /\ [][NextBackoff]_vars

InitStatus ==
    /\ ParserIdle
    /\ overflow_checks = FALSE
    /\ config = [max_retries |-> 0, retry_delay_ms |-> 0]
    /\ FetchIdle
    /\ backoff_base = 0
    /\ backoff_delays = <<>>
    /\ status_in \in 0..U16Max
    /\ status_retryable = <<>>
    /\ SubIdle
    /\ RegIdle
    /\ CodecIdle

\* is_retryable_status(status_in)
Classify ==
    /\ status_retryable = <<>>
    /\ status_retryable' = <<is_retryable_status(status_in)>>
    /\ UNCHANGED <<backoff_base, backoff_delays, status_in>>
    /\ UNCHANGED nonUtilVars

NextStatus == Classify

SpecStatus == InitStatus /\ [][NextStatus]_vars

(***************************************************************************)
(* BraidClient::subscribe (client/fetch.rs) and Subscription                *)
(* (client/subscription.rs): the call, the forwarding task it spawns, the  *)
(* bounded channel between the task and the Subscription, and the consumer *)
(* that calls next() or drops the Subscription.                            *)
(***************************************************************************)
\* mpsc::channel(100)
ChannelCapacity == 100

\* a status check that lets every status below 300 pass
InvalidStatus_from_300(s) == s >= 300

\* response.status().as_u16() != 209
InvalidStatus(s) == s # 209

\* message_to_update: the Update that carries the headers, the body and the
\* patches of a Message
message_to_update(msg) ==
    [extra_headers |-> msg.headers, body |-> msg.body, patches |-> msg.patches]

\* messages.into_iter().map(message_to_update), wrapped in Ok
OkItems(messages) ==
    [i \in 1..Len(messages) |-> [kind |-> "Ok", update |-> message_to_update(messages[i])]]

ErrItem(e) == [kind |-> "Err", error |-> [kind |-> e]]

\* the frames a subscription stream is built from
SubFrames == {FrameNoLen, FrameBody5, FrameBadLen}

\* a long stream of small frames, longer than the channel is wide
Burst == [i \in 1..BurstLen |-> FrameNoLen]

SubStreams == {fs \in FrameSeqs : \A i \in 1..Len(fs) : fs[i] \in SubFrames} \cup {Burst}

InitSubscribe ==
    /\ frames \in SubStreams
    /\ input = Wire(frames)
    /\ fed = 0
    /\ parser = NewParser
    /\ emitted = <<>>
    /\ last = [result |-> "None", count |-> 0]
    /\ header_error = FALSE
    /\ overflow_checks \in BOOLEAN
    /\ config = [max_retries |-> 0, retry_delay_ms |-> 0]
    /\ FetchIdle
    /\ UtilIdle
    /\ SubIdle
    /\ RegIdle
    /\ CodecIdle

\* the offset of the stream at which frame k starts
FrameStart(k) == Len(Wire(SubSeq(frames, 1, k - 1)))

\* the sizes of the next chunk of the response body: a chunk ends where a
\* header block or a frame ends, or is a piece of at most MaxChunk bytes of
\* one body; the long stream arrives one frame per chunk
BodyChunkSizes ==
    IF frames = Burst
    THEN {n \in {Len(FrameNoLen.head) + Len(FrameNoLen.body)} : fed + n <= Len(input)}
    ELSE {n \in 1..(Len(input) - fed) :
             \/ (fed + n) \in Boundaries
             \/ /\ n <= MaxChunk
                /\ \E k \in 1..Len(frames) :
                       /\ FrameStart(k) + Len(frames[k].head) <= fed
                       /\ fed + n <= FrameStart(k + 1)}

\* subscribe, up to req_builder.send()
SubscribeCall ==
    /\ sub.pc = "idle"
    /\ sub' = [sub EXCEPT !.pc = "sending"]
    /\ UNCHANGED <<server, channel, task, pushed, delivered, got_none>>
    /\ UNCHANGED <<frames, input, fed, parser, emitted, overflow_checks>>
    /\ UNCHANGED nonSubVars

\* send() fails: map_err(BraidError::Http) and `?`
SubscribeSendError ==
    /\ sub.pc = "sending"
    /\ sub' = [sub EXCEPT !.pc = "returned",
                          !.result = [kind |-> "Err", error |-> [kind |-> "Http"]]]
    /\ UNCHANGED <<server, channel, task, pushed, delivered, got_none>>
    /\ UNCHANGED <<frames, input, fed, parser, emitted, overflow_checks>>
    /\ UNCHANGED nonSubVars

\* the response arrives with status s: any status but 209 is returned as
\* InvalidSubscriptionStatus(s); on 209 the channel is created, the task is
\* spawned and the Subscription is returned
SubscribeResponse(s) ==
    /\ sub.pc = "sending"
    /\ IF InvalidStatus(s)
       THEN /\ sub' = [pc |-> "returned", status |-> s,
                       result |-> [kind |-> "Err",
                                   error |-> [kind |-> "InvalidSubscriptionStatus",
                                              status |-> s]]]
            /\ UNCHANGED <<channel, task>>
       ELSE /\ channel' = [created |-> TRUE, queue |-> <<>>, tx_open |-> TRUE,
                           rx_open |-> TRUE, discarded |-> 0, woken |-> FALSE]
            /\ task' = [pc |-> "next", pending |-> <<>>, exit |-> "none"]
            /\ sub' = [pc |-> "returned", status |-> s, result |-> [kind |-> "Ok"]]
    /\ UNCHANGED <<server, pushed, delivered, got_none>>
    /\ UNCHANGED <<frames, input, fed, parser, emitted, overflow_checks>>
    /\ UNCHANGED nonSubVars

\* the server closes the response body after the last byte of input
ServerEnd ==
    /\ server = "open"
    /\ server' = "ended"
    /\ UNCHANGED <<sub, channel, task, pushed, delivered, got_none>>
    /\ UNCHANGED <<frames, input, fed, parser, emitted, overflow_checks>>
    /\ UNCHANGED nonSubVars

\* the connection breaks: the bytes not yet read are lost
ServerFail ==
    /\ server = "open"
    /\ server' = "failed"
    /\ UNCHANGED <<sub, channel, task, pushed, delivered, got_none>>
    /\ UNCHANGED <<frames, input, fed, parser, emitted, overflow_checks>>
    /\ UNCHANGED nonSubVars

\* the task ends (return, end of the loop or panic): tx is dropped
TaskEnd(how) == [pc |-> "ended", pending |-> <<>>, exit |-> how]

\* stream.next() yields Ok(chunk) with the next n bytes: parser.feed(&chunk);
\* the Messages become the Updates to push, an error becomes the one Err to
\* push, a panic ends the task
TaskChunk(n) ==
    /\ task.pc = "next"
    /\ server # "failed"
    /\ LET r == feed(parser, SubSeq(input, fed + 1, fed + n), overflow_checks) IN
       /\ parser' = r.parser
       /\ emitted' = emitted \o r.messages
       /\ IF r.result = "Panic"
          THEN /\ task' = TaskEnd("panic")
               /\ channel' = [channel EXCEPT !.tx_open = FALSE]
          ELSE IF r.result = "Ok"
          THEN /\ task' = [pc |-> IF r.messages = <<>> THEN "next" ELSE "send",
                           pending |-> OkItems(r.messages), exit |-> "none"]
               /\ UNCHANGED channel
          ELSE /\ task' = [pc |-> "send_err", pending |-> <<ErrItem(r.result)>>,
                           exit |-> "none"]
               /\ UNCHANGED channel
    /\ fed' = fed + n
    /\ UNCHANGED <<sub, server, pushed, delivered, got_none>>
    /\ UNCHANGED <<frames, input, overflow_checks>>
    /\ UNCHANGED nonSubVars

\* stream.next() yields None: the loop and the task end
TaskStreamEnd ==
    /\ task.pc = "next"
    /\ server = "ended"
    /\ fed = Len(input)
    /\ task' = TaskEnd("stream_end")
    /\ channel' = [channel EXCEPT !.tx_open = FALSE]
    /\ UNCHANGED <<sub, server, pushed, delivered, got_none>>
    /\ UNCHANGED <<frames, input, fed, parser, emitted, overflow_checks>>
    /\ UNCHANGED nonSubVars

\* stream.next() yields Err(e): BraidError::Http is the one Err to push
TaskStreamError ==
    /\ task.pc = "next"
    /\ server = "failed"
    /\ task' = [pc |-> "send_err", pending |-> <<ErrItem("Http")>>, exit |-> "none"]
    /\ UNCHANGED <<sub, server, channel, pushed, delivered, got_none>>
    /\ UNCHANGED <<frames, input, fed, parser, emitted, overflow_checks>>
    /\ UNCHANGED nonSubVars

\* a channel without a bound
HasRoom_unbounded == TRUE

\* the channel has room for one more item
HasRoom == Len(channel.queue) < ChannelCapacity

\* a send that does not see that the receiver is gone
ReceiverGone_unseen == FALSE

\* the receiver has been dropped: send returns Err
ReceiverGone == ~channel.rx_open

\* a recv that gives up as soon as the channel is empty
Disconnected_when_empty == TRUE

\* every sender has been dropped: recv returns None once the channel is empty
Disconnected == ~channel.tx_open

\* tx.send(Ok(update)).await: Err when the receiver is gone (return);
\* otherwise the item enters the channel as soon as there is room, and the
\* for loop goes on, or the while loop when the Messages are used up
TaskSend ==
    /\ task.pc = "send"
    /\ IF ReceiverGone
       THEN /\ task' = TaskEnd("receiver_dropped")
            /\ channel' = [channel EXCEPT !.tx_open = FALSE]
            /\ UNCHANGED pushed
       ELSE /\ HasRoom
            /\ channel' = [channel EXCEPT !.queue = Append(@, Head(task.pending))]
            /\ pushed' = Append(pushed, Head(task.pending))
            /\ task' = [pc |-> IF Tail(task.pending) = <<>> THEN "next" ELSE "send",
                        pending |-> Tail(task.pending), exit |-> "none"]
    /\ UNCHANGED <<sub, server, delivered, got_none>>
    /\ UNCHANGED <<frames, input, fed, parser, emitted, overflow_checks>>
    /\ UNCHANGED nonSubVars

\* the Err arm without its return: the loop goes on after the push
TaskSendErr_no_return ==
    /\ task.pc = "send_err"
    /\ IF ReceiverGone
       THEN /\ channel' = [channel EXCEPT !.tx_open = FALSE]
            /\ UNCHANGED pushed
       ELSE /\ HasRoom
            /\ channel' = [channel EXCEPT !.queue = Append(@, Head(task.pending)),
                                          !.tx_open = TRUE]
            /\ pushed' = Append(pushed, Head(task.pending))
    /\ task' = IF ReceiverGone THEN TaskEnd("error")
               ELSE [pc |-> "next", pending |-> <<>>, exit |-> "none"]
    /\ UNCHANGED <<sub, server, delivered, got_none>>
    /\ UNCHANGED <<frames, input, fed, parser, emitted, overflow_checks>>
    /\ UNCHANGED nonSubVars

\* let _ = tx.send(Err(e)).await; return
TaskSendErr ==
    /\ task.pc = "send_err"
    /\ IF ReceiverGone
       THEN /\ channel' = [channel EXCEPT !.tx_open = FALSE]
            /\ UNCHANGED pushed
       ELSE /\ HasRoom
            /\ channel' = [channel EXCEPT !.queue = Append(@, Head(task.pending)),
                                          !.tx_open = FALSE]
            /\ pushed' = Append(pushed, Head(task.pending))
    /\ task' = TaskEnd("error")
    /\ UNCHANGED <<sub, server, delivered, got_none>>
    /\ UNCHANGED <<frames, input, fed, parser, emitted, overflow_checks>>
    /\ UNCHANGED nonSubVars

\* Subscription::next, receiver.recv().await: the oldest item of the
\* channel; None once every sender is gone and the channel is empty;
\* suspended otherwise
ConsumerNext ==
    /\ channel.created
    /\ channel.rx_open
    /\ IF channel.queue # <<>>
       THEN /\ delivered' = Append(delivered, Head(channel.queue))
            /\ channel' = [channel EXCEPT !.queue = Tail(@)]
            /\ UNCHANGED got_none
       ELSE /\ Disconnected
            /\ ~got_none
            /\ got_none' = TRUE
            /\ UNCHANGED <<channel, delivered>>
    /\ UNCHANGED <<sub, server, task, pushed>>
    /\ UNCHANGED <<frames, input, fed, parser, emitted, overflow_checks>>
    /\ UNCHANGED nonSubVars

\* the Subscription is dropped: the receiver closes the channel, the items
\* still in it are dropped with it, and a sender suspended on the full
\* channel is woken
ConsumerDrop ==
    /\ channel.created
    /\ channel.rx_open
    /\ channel' = [channel EXCEPT !.rx_open = FALSE, !.queue = <<>>,
                                  !.discarded = Len(channel.queue),
                                  !.woken = (task.pc \in {"send", "send_err"} /\ ~HasRoom)]
    /\ UNCHANGED <<sub, server, task, pushed, delivered, got_none>>
    /\ UNCHANGED <<frames, input, fed, parser, emitted, overflow_checks>>
    /\ UNCHANGED nonSubVars

NextSubscribe ==
    \/ SubscribeCall
    \/ SubscribeSendError
    \/ \E s \in Statuses : SubscribeResponse(s)
    \/ ServerEnd
    \/ ServerFail
    \/ \E n \in BodyChunkSizes : TaskChunk(n)
    \/ TaskStreamEnd
    \/ TaskStreamError
    \/ TaskSend
    \/ TaskSendErr
    \/ ConsumerNext
    \/ ConsumerDrop

SpecSubscribe == InitSubscribe /\ [][NextSubscribe]_vars

\* the runtime runs the spawned task whenever its pending send can complete
\* or its stream has an end or an error to report, and the consumer keeps
\* calling next() for as long as it holds the Subscription; when the next
\* chunk arrives is up to the transport
FairSubscribe ==
    /\ SpecSubscribe
    /\ WF_vars(TaskStreamEnd)
    /\ WF_vars(TaskStreamError)
    /\ WF_vars(TaskSend)
    /\ WF_vars(TaskSendErr)
    /\ WF_vars(ConsumerNext)

(***************************************************************************)
(* ResourceStateManager (server/resource_state.rs): tasks that call the    *)
(* manager through one of its handles, the map behind its RwLock, and the  *)
(* ResourceState objects the map refers to.                                *)
(***************************************************************************)
ResourceIds == {"doc1", "doc2"}
AgentIds == {"alice", "bob"}

\* DiamondCRDT::new(agent_id): an empty document edited as agent_id
DiamondCRDT_new(agent_id) == [agent_id |-> agent_id, content |-> <<>>]

InitRegistry ==
    /\ ParserIdle
    /\ overflow_checks = FALSE
    /\ config = [max_retries |-> 0, retry_delay_ms |-> 0]
    /\ FetchIdle
    /\ UtilIdle
    /\ SubIdle
    /\ RegIdle
    /\ CodecIdle

\* the documents apply_update is called with, the texts apply_remote_insert
\* is called with, and the agents that edit
Texts == {<<"h", "i">>}
RemoteTexts == {<<"r">>}
EditAgents == {"bob"}

\* DiamondCRDT::add_insert(pos, text): text goes in at position pos
add_insert(crdt, pos, text) ==
    [crdt EXCEPT !.content =
        SubSeq(@, 1, pos) \o text \o SubSeq(@, pos + 1, Len(@))]

\* DiamondCRDT::add_insert_remote(agent_id, pos, text)
add_insert_remote(crdt, agent_id, pos, text) == add_insert(crdt, pos, text)

\* DiamondCRDT::add_delete_remote(agent_id, start..end): the characters at
\* the positions start..end-1 that exist go away
add_delete_remote(crdt, agent_id, start, end) ==
    [crdt EXCEPT !.content = SubSeq(@, 1, start) \o SubSeq(@, end + 1, Len(@))]

\* DiamondCRDT::checkpoint(): the snapshot, with its content field
checkpoint(crdt) == [content |-> crdt.content, agent_id |-> crdt.agent_id]

\* DiamondCRDT::export_operations()
export_operations(crdt) == [content |-> crdt.content, agent_id |-> crdt.agent_id]

\* DiamondCRDT::merge_quality()
merge_quality(crdt) == 100

\* Option and Result values and a Vec of keys, as a kind and a payload
Some(v) == [kind |-> "Some", value |-> v]
None == [kind |-> "None", value |-> <<>>]
Ok(v) == [kind |-> "Ok", value |-> v]
Vec(v) == [kind |-> "Vec", value |-> v]

\* a lookup that answers with some entry of the map when the key has none
get_any(map, key) ==
    IF key \in DOMAIN map THEN Some(map[key])
    ELSE IF DOMAIN map # {} THEN Some(map[CHOOSE k \in DOMAIN map : TRUE])
    ELSE None

\* HashMap::get(key).cloned()
get(map, key) == IF key \in DOMAIN map THEN Some(map[key]) ELSE None

ApplyOps == {"apply_update", "apply_remote_insert", "apply_remote_delete"}
LookupOps == {"get_resource", "list_resources", "get_resource_state", "get_merge_quality"}

\* a guard that outlives the function
drop_leaked(holders, t) == holders

\* the guard of task t goes out of scope at the end of the function
drop(holders, t) == holders \ {t}

\* a write lock that does not wait for the lock to be free
WriteLockFree_always == TRUE

\* self.resources.write() can be taken: no writer and no reader holds the map
WriteLockFree == resources_lock.writers = {} /\ resources_lock.readers = {}

\* a read lock that does not wait for the writer to leave
ReadLockFree_always == TRUE

\* self.resources.read() can be taken: no writer holds the map
ReadLockFree == resources_lock.writers = {}

\* a write lock on a ResourceState that does not wait
StateWriteFree_always(o) == TRUE

\* resource.write() can be taken: no writer and no reader holds the ResourceState
StateWriteFree(o) == state_locks[o].writers = {} /\ state_locks[o].readers = {}

\* resource.read() can be taken: no writer holds the ResourceState
StateReadFree(o) == state_locks[o].writers = {}

\* an entry that is taken for vacant whatever the map holds
Vacant_always(resource_id) == TRUE

\* HashMap::entry(resource_id) is Entry::Vacant
Vacant(resource_id) == resource_id \notin DOMAIN resources

\* Clone for ResourceStateManager: one more handle to the same map
CloneManager ==
    /\ managers < MaxManagers
    /\ managers' = managers + 1
    /\ UNCHANGED <<resources, objects, resources_lock, tasks, clock, calls, returned,
                   state_locks, last_return>>
    /\ UNCHANGED nonRegVars

\* time passes
Tick ==
    /\ clock < MaxClock
    /\ clock' = clock + 1
    /\ UNCHANGED <<resources, objects, resources_lock, tasks, managers, calls, returned,
                   state_locks, last_return>>
    /\ UNCHANGED nonRegVars

\* the callers are interchangeable: a call is made by the first task that
\* is not inside a call
FirstIdle(t) ==
    /\ tasks[t].pc = "idle"
    /\ \A u \in 1..(t - 1) : tasks[u].pc # "idle"

\* task t calls get_or_create_resource(resource_id, initial_agent_id) on
\* manager handle h
GetOrCreateCall(t, h, resource_id, initial_agent_id) ==
    /\ FirstIdle(t)
    /\ calls < MaxCalls
    /\ calls' = calls + 1
    /\ tasks' = [tasks EXCEPT ![t] =
                    [pc |-> "write", op |-> "get_or_create_resource", via |-> h,
                     resource_id |-> resource_id, agent_id |-> initial_agent_id,
                     text |-> <<>>, vacant |-> FALSE, ret |-> 0]]
    /\ UNCHANGED <<resources, objects, resources_lock, managers, clock, returned,
                   state_locks, last_return>>
    /\ UNCHANGED nonRegVars

\* task t calls apply_update(resource_id, content, agent_id),
\* apply_remote_insert(resource_id, agent_id, 0, text) or
\* apply_remote_delete(resource_id, agent_id, 0, 1); each starts with
\* self.get_or_create_resource(resource_id, agent_id)
ApplyCall(t, op, resource_id, agent_id, text) ==
    /\ FirstIdle(t)
    /\ calls < MaxCalls
    /\ calls' = calls + 1
    /\ tasks' = [tasks EXCEPT ![t] =
                    [pc |-> "write", op |-> op, via |-> 0,
                     resource_id |-> resource_id, agent_id |-> agent_id,
                     text |-> text,
                     vacant |-> FALSE, ret |-> 0]]
    /\ UNCHANGED <<resources, objects, resources_lock, managers, clock, returned,
                   state_locks, last_return>>
    /\ UNCHANGED nonRegVars

\* task t calls get_resource, list_resources, get_resource_state or
\* get_merge_quality
LookupCall(t, op, resource_id) ==
    /\ FirstIdle(t)
    /\ calls < MaxCalls
    /\ calls' = calls + 1
    /\ tasks' = [tasks EXCEPT ![t] =
                    [pc |-> "read", op |-> op, via |-> 0,
                     resource_id |-> IF op = "list_resources" THEN "" ELSE resource_id,
                     agent_id |-> "", text |-> <<>>, vacant |-> FALSE, ret |-> 0]]
    /\ UNCHANGED <<resources, objects, resources_lock, managers, clock, returned,
                   state_locks, last_return>>
    /\ UNCHANGED nonRegVars

\* what a call hands to its caller
Return(t, out) ==
    [op |-> tasks[t].op, resource_id |-> tasks[t].resource_id, out |-> out]

\* let mut resources = self.resources.write(): waits until the lock is free
GetOrCreateWrite(t) ==
    /\ tasks[t].pc = "write"
    /\ WriteLockFree
    /\ resources_lock' = [resources_lock EXCEPT !.writers = @ \cup {t}]
    /\ tasks' = [tasks EXCEPT ![t].pc = "entry"]
    /\ UNCHANGED <<resources, objects, managers, clock, calls, returned,
                   state_locks, last_return>>
    /\ UNCHANGED nonRegVars

\* resources.entry(resource_id.to_string())
GetOrCreateEntry(t) ==
    /\ tasks[t].pc = "entry"
    /\ tasks' = [tasks EXCEPT ![t].pc = "or_insert_with",
                              ![t].vacant = Vacant(tasks[t].resource_id)]
    /\ UNCHANGED <<resources, objects, resources_lock, managers, clock, calls, returned,
                   state_locks, last_return>>
    /\ UNCHANGED nonRegVars

\* .or_insert_with(|| Arc::new(RwLock::new(ResourceState { .. }))).clone():
\* a vacant entry gets a new ResourceState, an occupied one is left as it is
GetOrCreateInsert(t) ==
    /\ tasks[t].pc = "or_insert_with"
    /\ IF tasks[t].vacant
       THEN /\ objects' = Append(objects,
                                 [resource_id |-> tasks[t].resource_id,
                                  crdt |-> DiamondCRDT_new(tasks[t].agent_id),
                                  last_sync |-> clock,
                                  edits |-> <<>>])
            /\ state_locks' = Append(state_locks, NoLock)
            /\ resources' =
                   [id \in DOMAIN resources \cup {tasks[t].resource_id} |->
                       IF id = tasks[t].resource_id THEN Len(objects) + 1
                       ELSE resources[id]]
            /\ tasks' = [tasks EXCEPT ![t].pc = "return", ![t].ret = Len(objects) + 1]
       ELSE /\ tasks' = [tasks EXCEPT ![t].pc = "return",
                                      ![t].ret = resources[tasks[t].resource_id]]
            /\ UNCHANGED <<resources, objects, state_locks>>
    /\ UNCHANGED <<resources_lock, managers, clock, calls, returned, last_return>>
    /\ UNCHANGED nonRegVars

\* get_or_create_resource returns the Arc and its write guard is dropped; an
\* apply_* call goes on with the Arc
GetOrCreateReturn(t) ==
    /\ tasks[t].pc = "return"
    /\ resources_lock' = [resources_lock EXCEPT !.writers = drop(@, t)]
    /\ returned' = returned \cup {[resource_id |-> tasks[t].resource_id, arc |-> tasks[t].ret]}
    /\ IF tasks[t].op \in ApplyOps
       THEN /\ tasks' = [tasks EXCEPT ![t].pc = "state_write"]
            /\ UNCHANGED last_return
       ELSE /\ tasks' = [tasks EXCEPT ![t] = IdleTask]
            /\ last_return' = Return(t, Some(tasks[t].ret))
    /\ UNCHANGED <<resources, objects, managers, clock, calls, state_locks>>
    /\ UNCHANGED nonRegVars

\* let mut state = resource.write(): waits until the ResourceState is free
ApplyStateWrite(t) ==
    /\ tasks[t].pc = "state_write"
    /\ StateWriteFree(tasks[t].ret)
    /\ state_locks' = [state_locks EXCEPT ![tasks[t].ret].writers = @ \cup {t}]
    /\ tasks' = [tasks EXCEPT ![t].pc = "edit"]
    /\ UNCHANGED <<resources, objects, resources_lock, managers, clock, calls, returned,
                   last_return>>
    /\ UNCHANGED nonRegVars

\* an apply_update that leaves the engine as it was
apply_update_skipped(crdt, content) == crdt

\* apply_update's edit: state.crdt.add_insert(0, content)
apply_update_edit(crdt, content) == add_insert(crdt, 0, content)

\* state.crdt.add_insert(0, content) (apply_update),
\* add_insert_remote(agent_id, pos, text) or add_delete_remote(agent_id,
\* start..end); state.last_sync = SystemTime::now(). The field edits is the
\* history of the edits made to the ResourceState: the operation, its text
\* and whether its call constructed the ResourceState
ApplyEdit(t) ==
    /\ tasks[t].pc = "edit"
    /\ LET o == tasks[t].ret
           crdt == objects[o].crdt
           edited ==
               IF tasks[t].op = "apply_update"
               THEN apply_update_edit(crdt, tasks[t].text)
               ELSE IF tasks[t].op = "apply_remote_insert"
               THEN add_insert_remote(crdt, tasks[t].agent_id, 0, tasks[t].text)
               ELSE add_delete_remote(crdt, tasks[t].agent_id, 0, 1)
       IN objects' = [objects EXCEPT
                         ![o].crdt = edited,
                         ![o].last_sync = clock,
                         ![o].edits = Append(@, [op |-> tasks[t].op, text |-> tasks[t].text,
                                                 created |-> tasks[t].vacant])]
    /\ tasks' = [tasks EXCEPT ![t].pc = "export"]
    /\ UNCHANGED <<resources, resources_lock, managers, clock, calls, returned,
                   state_locks, last_return>>
    /\ UNCHANGED nonRegVars

\* Ok(state.crdt.export_operations()); the write guard is dropped
ApplyReturn(t) ==
    /\ tasks[t].pc = "export"
    /\ last_return' =
           Return(t, Ok(export_operations(objects[tasks[t].ret].crdt)))
    /\ state_locks' = [state_locks EXCEPT ![tasks[t].ret].writers = drop(@, t)]
    /\ tasks' = [tasks EXCEPT ![t] = IdleTask]
    /\ UNCHANGED <<resources, objects, resources_lock, managers, clock, calls, returned>>
    /\ UNCHANGED nonRegVars

\* let resources = self.resources.read(): waits until no writer holds the map
GetResourceRead(t) ==
    /\ tasks[t].pc = "read"
    /\ ReadLockFree
    /\ resources_lock' = [resources_lock EXCEPT !.readers = @ \cup {t}]
    /\ tasks' = [tasks EXCEPT ![t].pc = "get"]
    /\ UNCHANGED <<resources, objects, managers, clock, calls, returned,
                   state_locks, last_return>>
    /\ UNCHANGED nonRegVars

\* resources.get(resource_id).cloned(), or resources.keys().cloned().collect();
\* the read guard is dropped. get_resource and list_resources return;
\* get_resource_state and get_merge_quality return None for no entry and go
\* on with the Arc otherwise
GetResourceGet(t) ==
    /\ tasks[t].pc = "get"
    /\ resources_lock' = [resources_lock EXCEPT !.readers = drop(@, t)]
    /\ LET resource == get(resources, tasks[t].resource_id)
       IN IF tasks[t].op = "list_resources"
          THEN /\ last_return' = Return(t, Vec(DOMAIN resources))
               /\ tasks' = [tasks EXCEPT ![t] = IdleTask]
          ELSE IF tasks[t].op = "get_resource" \/ resource.kind = "None"
          THEN /\ last_return' = Return(t, resource)
               /\ tasks' = [tasks EXCEPT ![t] = IdleTask]
          ELSE /\ tasks' = [tasks EXCEPT ![t].pc = "state_read", ![t].ret = resource.value]
               /\ UNCHANGED last_return
    /\ UNCHANGED <<resources, objects, managers, clock, calls, returned, state_locks>>
    /\ UNCHANGED nonRegVars

\* let state = resource.read(): waits until no writer holds the ResourceState
StateRead(t) ==
    /\ tasks[t].pc = "state_read"
    /\ StateReadFree(tasks[t].ret)
    /\ state_locks' = [state_locks EXCEPT ![tasks[t].ret].readers = @ \cup {t}]
    /\ tasks' = [tasks EXCEPT ![t].pc = "query"]
    /\ UNCHANGED <<resources, objects, resources_lock, managers, clock, calls, returned,
                   last_return>>
    /\ UNCHANGED nonRegVars

\* state.crdt.checkpoint() or state.crdt.merge_quality(); the read guard is
\* dropped
StateQuery(t) ==
    /\ tasks[t].pc = "query"
    /\ last_return' =
           Return(t, Some(IF tasks[t].op = "get_resource_state"
                          THEN checkpoint(objects[tasks[t].ret].crdt)
                          ELSE merge_quality(objects[tasks[t].ret].crdt)))
    /\ state_locks' = [state_locks EXCEPT ![tasks[t].ret].readers = drop(@, t)]
    /\ tasks' = [tasks EXCEPT ![t] = IdleTask]
    /\ UNCHANGED <<resources, objects, resources_lock, managers, clock, calls, returned>>
    /\ UNCHANGED nonRegVars

NextRegistry ==
    \/ CloneManager
    \/ Tick
    \/ \E t \in Tasks, h \in 1..managers, resource_id \in ResourceIds, agent_id \in AgentIds :
           GetOrCreateCall(t, h, resource_id, agent_id)
    \/ \E t \in Tasks : GetOrCreateWrite(t)
    \/ \E t \in Tasks : GetOrCreateEntry(t)
    \/ \E t \in Tasks : GetOrCreateInsert(t)
    \/ \E t \in Tasks : GetOrCreateReturn(t)

\* every operation of the manager, through one handle
NextManager ==
    \/ Tick
    \/ \E t \in Tasks, resource_id \in ResourceIds, agent_id \in AgentIds :
           GetOrCreateCall(t, 1, resource_id, agent_id)
    \/ \E t \in Tasks, resource_id \in ResourceIds, agent_id \in EditAgents, text \in Texts :
           ApplyCall(t, "apply_update", resource_id, agent_id, text)
    \/ \E t \in Tasks, resource_id \in ResourceIds, agent_id \in EditAgents,
          text \in RemoteTexts :
           ApplyCall(t, "apply_remote_insert", resource_id, agent_id, text)
    \/ \E t \in Tasks, resource_id \in ResourceIds, agent_id \in EditAgents :
           ApplyCall(t, "apply_remote_delete", resource_id, agent_id, <<>>)
    \/ \E t \in Tasks, op \in LookupOps, resource_id \in ResourceIds :
           LookupCall(t, op, resource_id)
    \/ \E t \in Tasks : GetOrCreateWrite(t)
    \/ \E t \in Tasks : GetOrCreateEntry(t)
    \/ \E t \in Tasks : GetOrCreateInsert(t)
    \/ \E t \in Tasks : GetOrCreateReturn(t)
    \/ \E t \in Tasks : ApplyStateWrite(t)
    \/ \E t \in Tasks : ApplyEdit(t)
    \/ \E t \in Tasks : ApplyReturn(t)
    \/ \E t \in Tasks : GetResourceRead(t)
    \/ \E t \in Tasks : GetResourceGet(t)
    \/ \E t \in Tasks : StateRead(t)
    \/ \E t \in Tasks : StateQuery(t)

SpecManager == InitRegistry /\ [][NextManager]_vars

\* the next step of the call that task t is running, whatever it is
StepOf(t) ==
    \/ GetOrCreateWrite(t)
    \/ GetOrCreateEntry(t)
    \/ GetOrCreateInsert(t)
    \/ GetOrCreateReturn(t)
    \/ ApplyStateWrite(t)
    \/ ApplyEdit(t)
    \/ ApplyReturn(t)
    \/ GetResourceRead(t)
    \/ GetResourceGet(t)
    \/ StateRead(t)
    \/ StateQuery(t)

\* The manager under fair scheduling: a task whose next step stays possible
\* takes it. The runtime keeps running a task that is not blocked, and a
\* parking_lot lock that stays free is granted to a thread that waits for it.
\* Nothing is assumed about callers: no call has to be made. Every step of a
\* call moves the task, so the steps are the ones that change tasks.
FairManager == SpecManager /\ \A t \in Tasks : WF_tasks(StepOf(t))

SpecRegistry == InitRegistry /\ [][NextRegistry]_vars

(***************************************************************************)
(* The header codec (protocol/headers.rs).                                 *)
(***************************************************************************)
\* the longest header text, the longest version list and the longest version
MaxText == 3
MaxVersions == 2
MaxVersionLen == 2

\* the bytes of the version headers: '"', ',', ' ' and 'v'
VersionBytes == {34, 44, 32, 118}

\* the byte strings over an alphabet, up to a length
StringsUpTo(bytes, n) == UNION {[1..k -> bytes] : k \in 0..n}

\* the slicing &trimmed[1..trimmed.len() - 1] aborts when 1 > len - 1
Panic == [kind |-> "Panic", value |-> <<>>]

\* str::split(byte): the parts between the occurrences, empty parts included
RECURSIVE split(_, _)
split(s, b) ==
    LET at == find(s, b) IN
    IF at = 0 THEN <<s>>
    ELSE <<SubSeq(s, 1, at - 1)>> \o split(SubSeq(s, at + 1, Len(s)), b)

\* the body of parse_version_header's loop: the part trimmed and, when it
\* starts and ends with '"', sliced [1..len - 1]; a part that is one '"'
\* starts and ends with it, and its slice [1..0] aborts
version_str(part) ==
    LET trimmed == trim(part) IN
    IF trimmed # <<>> /\ trimmed[1] = 34 /\ trimmed[Len(trimmed)] = 34
    THEN IF 1 > Len(trimmed) - 1 THEN Panic
         ELSE Ok(SubSeq(trimmed, 2, Len(trimmed) - 1))
    ELSE Ok(trimmed)

\* parse_version_header
parse_version_header(value) ==
    IF value = <<>> THEN Ok(<<>>)
    ELSE LET parts == split(value, 44) IN
         IF \E i \in 1..Len(parts) : version_str(parts[i]).kind = "Panic"
         THEN Panic
         ELSE Ok([i \in 1..Len(parts) |-> version_str(parts[i]).value])

\* Vec<String>::join(", ")
RECURSIVE join(_)
join(strs) ==
    IF strs = <<>> THEN <<>>
    ELSE IF Len(strs) = 1 THEN strs[1]
    ELSE strs[1] \o <<44, 32>> \o join(Tail(strs))

\* a format_version_header that leaves the quotes out
format_version_header_unquoted(versions) == join(versions)

\* format_version_header: each version between double quotes, joined by ", "
format_version_header(versions) ==
    join([i \in 1..Len(versions) |-> <<34>> \o versions[i] \o <<34>>])

\* parse_version_header is called with a header text
InitVersionHeader ==
    /\ ParserIdle
    /\ overflow_checks = FALSE
    /\ config = [max_retries |-> 0, retry_delay_ms |-> 0]
    /\ FetchIdle
    /\ UtilIdle
    /\ SubIdle
    /\ RegIdle
    /\ codec_in \in StringsUpTo(VersionBytes, MaxText)
    /\ codec_out = <<>>

ParseVersionHeader ==
    /\ codec_out = <<>>
    /\ codec_out' = <<parse_version_header(codec_in)>>
    /\ UNCHANGED codec_in
    /\ UNCHANGED nonCodecVars

NextVersionHeader == ParseVersionHeader

SpecVersionHeader == InitVersionHeader /\ [][NextVersionHeader]_vars

\* the version lists that are formatted and parsed back
VersionLists ==
    UNION {[1..k -> StringsUpTo(VersionBytes, MaxVersionLen)] : k \in 0..MaxVersions}

InitVersionRoundTrip ==
    /\ ParserIdle
    /\ overflow_checks = FALSE
    /\ config = [max_retries |-> 0, retry_delay_ms |-> 0]
    /\ FetchIdle
    /\ UtilIdle
    /\ SubIdle
    /\ RegIdle
    /\ codec_in \in VersionLists
    /\ codec_out = <<>>

FormatThenParse ==
    /\ codec_out = <<>>
    /\ codec_out' = <<parse_version_header(format_version_header(codec_in))>>
    /\ UNCHANGED codec_in
    /\ UNCHANGED nonCodecVars

NextVersionRoundTrip == FormatThenParse

SpecVersionRoundTrip == InitVersionRoundTrip /\ [][NextVersionRoundTrip]_vars

\* the longest number of a heartbeat text
MaxDigits == 4

\* the heartbeat texts: blanks, a number of the bytes '0' '1' '5' '+' '-',
\* a suffix of the bytes 'm' 's' ' ', blanks
HeartbeatTexts ==
    {lead \o num \o suffix \o trail :
        lead \in {<<>>, <<32>>},
        num \in StringsUpTo({48, 49, 53, 43, 45}, MaxDigits),
        suffix \in StringsUpTo({109, 115, 32}, 2),
        trail \in {<<>>, <<32>>}}

\* BraidError::HeaderParse
HeaderParse == [kind |-> "HeaderParse", value |-> 0]

\* str::ends_with
ends_with(s, suffix) ==
    Len(s) >= Len(suffix) /\ SubSeq(s, Len(s) - Len(suffix) + 1, Len(s)) = suffix

\* str::parse::<u64>: an optional '+', then one or more decimal digits (the
\* digit strings of the model are far below u64::MAX)
ParseU64(s) == ParseUsize(s)

\* milliseconds to seconds, rounded to the nearest second
ms_to_seconds_rounded(n) == (n + 500) \div 1000

\* .map(|n| n / 1000): u64 division truncates
ms_to_seconds(n) == n \div 1000

\* protocol::parse_heartbeat
parse_heartbeat(value) ==
    LET trimmed == trim(value) IN
    IF ends_with(trimmed, <<109, 115>>)
    THEN LET n == ParseU64(SubSeq(trimmed, 1, Len(trimmed) - 2)) IN
         IF n.ok THEN Ok(ms_to_seconds(n.value)) ELSE HeaderParse
    ELSE IF ends_with(trimmed, <<115>>)
    THEN LET n == ParseU64(SubSeq(trimmed, 1, Len(trimmed) - 1)) IN
         IF n.ok THEN Ok(n.value) ELSE HeaderParse
    ELSE LET n == ParseU64(trimmed) IN
         IF n.ok THEN Ok(n.value) ELSE HeaderParse

InitHeartbeat ==
    /\ ParserIdle
    /\ overflow_checks = FALSE
    /\ config = [max_retries |-> 0, retry_delay_ms |-> 0]
    /\ FetchIdle
    /\ UtilIdle
    /\ SubIdle
    /\ RegIdle
    /\ codec_in \in HeartbeatTexts
    /\ codec_out = <<>>

ParseHeartbeat ==
    /\ codec_out = <<>>
    /\ codec_out' = <<parse_heartbeat(codec_in)>>
    /\ UNCHANGED codec_in
    /\ UNCHANGED nonCodecVars

NextHeartbeat == ParseHeartbeat

SpecHeartbeat == InitHeartbeat /\ [][NextHeartbeat]_vars

(***************************************************************************)
(* client::parse_heartbeat (client/utils.rs).                              *)
(***************************************************************************)
\* str::parse::<f64> on the texts of the model (no '.', no exponent, no
\* "inf", no "nan"): an optional '+' or '-', then one or more decimal digits
ParseF64(s) ==
    LET signed == s # <<>> /\ s[1] \in {43, 45}
        d == IF signed THEN Tail(s) ELSE s
    IN IF d # <<>> /\ \A i \in 1..Len(d) : d[i] \in 48..57
       THEN [ok |-> TRUE, negative |-> signed /\ s[1] = 45, value |-> DigitsValue(d)]
       ELSE [ok |-> FALSE, negative |-> FALSE, value |-> 0]

\* Duration::from_secs_f64, as milliseconds: aborts for a number below zero
\* (-0.0 is not below zero)
from_secs_f64(num) ==
    IF num.negative /\ num.value > 0 THEN Panic ELSE Ok(1000 * num.value)

\* client::parse_heartbeat: the test for 's' comes before the test for "ms"
client_parse_heartbeat(value) ==
    LET trimmed == trim(value)
        num_str == IF ends_with(trimmed, <<115>>)
                   THEN SubSeq(trimmed, 1, Len(trimmed) - 1)
                   ELSE IF ends_with(trimmed, <<109, 115>>)
                   THEN SubSeq(trimmed, 1, Len(trimmed) - 2)
                   ELSE trimmed
        num == ParseF64(num_str)
    IN IF ~num.ok THEN HeaderParse ELSE from_secs_f64(num)

InitClientHeartbeat ==
    /\ ParserIdle
    /\ overflow_checks = FALSE
    /\ config = [max_retries |-> 0, retry_delay_ms |-> 0]
    /\ FetchIdle
    /\ UtilIdle
    /\ SubIdle
    /\ RegIdle
    /\ codec_in \in HeartbeatTexts
    /\ codec_out = <<>>

ClientParseHeartbeat ==
    /\ codec_out = <<>>
    /\ codec_out' = <<client_parse_heartbeat(codec_in)>>
    /\ UNCHANGED codec_in
    /\ UNCHANGED nonCodecVars

NextClientHeartbeat == ClientParseHeartbeat

SpecClientHeartbeat == InitClientHeartbeat /\ [][NextClientHeartbeat]_vars

(***************************************************************************)
(* BraidState::from_headers (server/middleware.rs).                        *)
(***************************************************************************)
\* the most entries of an inbound header map
MaxHeaders == 2

\* protocol::constants::headers: the header names, in lower case
SUBSCRIBE == <<115, 117, 98, 115, 99, 114, 105, 98, 101>>
VERSION == <<118, 101, 114, 115, 105, 111, 110>>
PARENTS == <<112, 97, 114, 101, 110, 116, 115>>
PEER == <<112, 101, 101, 114>>
HEARTBEATS == <<104, 101, 97, 114, 116, 98, 101, 97, 116, 115>>
MERGE_TYPE == <<109, 101, 114, 103, 101, 45, 116, 121, 112, 101>>
CONTENT_RANGE == <<99, 111, 110, 116, 101, 110, 116, 45, 114, 97, 110, 103, 101>>

\* the names of the inbound headers: the seven above and "x"
HeaderNames ==
    {SUBSCRIBE, VERSION, PARENTS, PEER, HEARTBEATS, MERGE_TYPE, CONTENT_RANGE, <<120>>}

\* the values of the inbound headers: "\"v\"", one double quote, "1s", "m",
\* "true" and a value of one byte 0xFF
HeaderValues == {<<34, 118, 34>>, <<34>>, <<49, 115>>, <<109>>, <<116, 114, 117, 101>>, <<255>>}

\* the inbound header maps, in the order headers.iter() yields the entries
HeaderMaps ==
    UNION {[1..k -> [name : HeaderNames, value : HeaderValues]] : k \in 0..MaxHeaders}

\* HeaderValue::to_str succeeds: every byte is visible ASCII or a tab
to_str_ok(value) == \A i \in 1..Len(value) : value[i] \in (32..126) \cup {9}

\* Result::ok: Ok(v) becomes Some(v), an error becomes None; an abort stays
\* an abort
ok(r) == IF r.kind = "Ok" THEN Some(r.value) ELSE IF r.kind = "Panic" THEN Panic ELSE None

\* the BraidState from_headers starts with
EmptyBraidState ==
    [subscribe |-> FALSE, version |-> None, parents |-> None, peer |-> None,
     heartbeat |-> None, merge_type |-> None, content_range |-> None,
     headers |-> EmptyHeaders]

\* the body of from_headers' loop for one entry: Panic when
\* parse_version_header aborts
from_headers_entry(braid_state, entry) ==
    IF ~to_str_ok(entry.value) THEN braid_state
    ELSE LET name_lower == to_lowercase(entry.name)
             value_str == entry.value
             st == [braid_state EXCEPT !.headers = MapInsert(@, name_lower, value_str)]
         IN IF name_lower = SUBSCRIBE
            THEN [st EXCEPT !.subscribe = (to_lowercase(value_str) = <<116, 114, 117, 101>>)]
            ELSE IF name_lower = VERSION
            THEN LET v == ok(parse_version_header(value_str)) IN
                 IF v.kind = "Panic" THEN Panic ELSE [st EXCEPT !.version = v]
            ELSE IF name_lower = PARENTS
            THEN LET v == ok(parse_version_header(value_str)) IN
                 IF v.kind = "Panic" THEN Panic ELSE [st EXCEPT !.parents = v]
            ELSE IF name_lower = PEER
            THEN [st EXCEPT !.peer = Some(value_str)]
            ELSE IF name_lower = HEARTBEATS
            THEN [st EXCEPT !.heartbeat = ok(parse_heartbeat(value_str))]
            ELSE IF name_lower = MERGE_TYPE
            THEN [st EXCEPT !.merge_type = Some(value_str)]
            ELSE IF name_lower = CONTENT_RANGE
            THEN [st EXCEPT !.content_range = Some(value_str)]
            ELSE st

\* the for loop of from_headers; an abort ends it
RECURSIVE from_headers_loop(_, _)
from_headers_loop(braid_state, entries) ==
    IF entries = <<>> THEN [kind |-> "BraidState", value |-> braid_state]
    ELSE LET next == from_headers_entry(braid_state, Head(entries)) IN
         IF next = Panic THEN Panic
         ELSE from_headers_loop(next, Tail(entries))

\* BraidState::from_headers
from_headers(headers) == from_headers_loop(EmptyBraidState, headers)

InitFromHeaders ==
    /\ ParserIdle
    /\ overflow_checks = FALSE
    /\ config = [max_retries |-> 0, retry_delay_ms |-> 0]
    /\ FetchIdle
    /\ UtilIdle
    /\ SubIdle
    /\ RegIdle
    /\ codec_in \in HeaderMaps
    /\ codec_out = <<>>

FromHeaders ==
    /\ codec_out = <<>>
    /\ codec_out' = <<from_headers(codec_in)>>
    /\ UNCHANGED codec_in
    /\ UNCHANGED nonCodecVars

NextFromHeaders == FromHeaders

SpecFromHeaders == InitFromHeaders /\ [][NextFromHeaders]_vars

(***************************************************************************)
(* server/send_update.rs: an Update encoded as an HTTP response.           *)
(***************************************************************************)
\* the longest patch list of an Update
MaxPatches == 2

\* protocol::constants::headers::PATCHES and http::header::CONTENT_LENGTH
PATCHES == <<112, 97, 116, 99, 104, 101, 115>>
CONTENT_LENGTH == <<99, 111, 110, 116, 101, 110, 116, 45, 108, 101, 110, 103, 116, 104>>

\* usize::to_string: the decimal digits
RECURSIVE to_string(_)
to_string(n) ==
    IF n < 10 THEN <<48 + n>> ELSE to_string(n \div 10) \o <<48 + (n % 10)>>

\* value.parse::<HeaderValue>() succeeds: no control byte but the tab
is_header_value(value) ==
    \A i \in 1..Len(value) : (value[i] >= 32 /\ value[i] # 127) \/ value[i] = 9

\* HeaderName::try_from(key) succeeds: a token that is not empty
is_header_name(key) ==
    /\ key # <<>>
    /\ \A i \in 1..Len(key) :
           key[i] \in (48..57) \cup (65..90) \cup (97..122)
                      \cup {33, 35, 36, 37, 38, 39, 42, 43, 45, 46, 94, 95, 96, 124, 126}

\* BTreeMap::insert
insert(map, key, value) == (key :> value) @@ map

\* StatusCode::from_u16 succeeds
StatusCode_from_u16_ok(status) == status >= 100 /\ status <= 999

\* Response::default(): 200 with no header and an empty body
Response_default == [status |-> 200, headers |-> <<>>, body |-> None]

\* UpdateResponse::new
UpdateResponse_new(status) == [status |-> status, headers |-> <<>>, body |-> None]

\* UpdateResponse::with_version, with_parents, with_header, with_body
with_version(r, versions) ==
    [r EXCEPT !.headers = insert(@, VERSION, format_version_header(versions))]

with_parents(r, parents) ==
    [r EXCEPT !.headers = insert(@, PARENTS, format_version_header(parents))]

with_header(r, key, value) == [r EXCEPT !.headers = insert(@, key, value)]

with_body(r, body) == [r EXCEPT !.body = Some(body)]

\* UpdateResponse::build. The four statuses named in the match and every
\* other one go through StatusCode, which takes 100..=999 and makes unwrap
\* abort otherwise. A header whose value does not parse is left out; a
\* header whose name does not parse makes the builder fail, and the failed
\* builder is replaced by Response::default(). Header names are kept in
\* lower case.
build(r) ==
    IF r.status \notin {200, 209, 404, 500} /\ ~StatusCode_from_u16_ok(r.status)
    THEN Panic
    ELSE LET kept == {k \in DOMAIN r.headers : is_header_value(r.headers[k])}
             sent_headers ==
                 [n \in {to_lowercase(k) : k \in kept} |->
                     r.headers[CHOOSE k \in kept : to_lowercase(k) = n]]
         IN IF \E k \in kept : ~is_header_name(k)
            THEN [kind |-> "Response", value |-> Response_default]
            ELSE IF r.body.kind = "Some"
            THEN [kind |-> "Response",
                  value |-> [status |-> r.status,
                             headers |-> insert(sent_headers, CONTENT_LENGTH,
                                                to_string(Len(r.body.value))),
                             body |-> Some(r.body.value)]]
            ELSE [kind |-> "Response",
                  value |-> [status |-> r.status, headers |-> sent_headers,
                             body |-> None]]

\* impl IntoResponse for Update
into_response(update) ==
    LET r0 == UpdateResponse_new(update.status)
        r1 == IF update.version # <<>> THEN with_version(r0, update.version) ELSE r0
        r2 == IF update.parents # <<>> THEN with_parents(r1, update.parents) ELSE r1
        r3 == [r2 EXCEPT !.headers = update.extra_headers @@ @]
        r4 == IF update.body.kind = "Some" THEN with_body(r3, update.body.value)
              ELSE IF update.patches.kind = "Some"
              THEN LET patches == update.patches.value
                       r5 == with_header(r3, PATCHES, to_string(Len(patches)))
                   IN IF patches # <<>>
                      THEN with_body(
                               with_header(r5, CONTENT_RANGE,
                                   patches[1].unit \o <<32>> \o patches[1].range),
                               patches[1].content)
                      ELSE r5
              ELSE r3
    IN build(r4)

\* the statuses an Update is given: the ends of u16, the ends of the range
\* of StatusCode, the four statuses build names and the custom ones
UpdateStatuses == {0, 99, 100, 200, 206, 209, 293, 404, 410, 500, 999, 1000, 65535}

\* the patches: the unit "j" or a line feed, the range ".a", the content "p" or "q"
Patches ==
    [unit : {<<106>>, <<10>>}, range : {<<46, 97>>}, content : {<<112>>, <<113>>}]

PatchLists == UNION {[1..k -> Patches] : k \in 0..MaxPatches}

\* the extra headers: none, "X: 1", and "a b: 1" whose name is no token
ExtraHeaders == {<<>>, <<88>> :> <<49>>, <<97, 32, 98>> :> <<49>>}

Updates ==
    [status : UpdateStatuses,
     version : {<<>>, << <<118>> >>},
     parents : {<<>>, << <<118>> >>},
     extra_headers : ExtraHeaders,
     body : {None, Some(<<>>), Some(<<98>>)},
     patches : {None} \cup {Some(l) : l \in PatchLists}]

InitSendUpdate ==
    /\ ParserIdle
    /\ overflow_checks = FALSE
    /\ config = [max_retries |-> 0, retry_delay_ms |-> 0]
    /\ FetchIdle
    /\ UtilIdle
    /\ SubIdle
    /\ RegIdle
    /\ codec_in \in Updates
    /\ codec_out = <<>>

IntoResponse ==
    /\ codec_out = <<>>
    /\ codec_out' = <<into_response(codec_in)>>
    /\ UNCHANGED codec_in
    /\ UNCHANGED nonCodecVars

NextSendUpdate == IntoResponse

SpecSendUpdate == InitSendUpdate /\ [][NextSendUpdate]_vars

(***************************************************************************)
(* client/fetch.rs: the request that fetch and subscribe hand to the       *)
(* transport.                                                              *)
(***************************************************************************)
\* the method names and the value of the Subscribe header
GET_ == <<71, 69, 84>>
POST_ == <<80, 79, 83, 84>>
PUT_ == <<80, 85, 84>>
DELETE_ == <<68, 69, 76, 69, 84, 69>>
PATCH_ == <<80, 65, 84, 67, 72>>
TRUE_ == <<116, 114, 117, 101>>

\* str::to_uppercase on the ASCII range
to_uppercase(s) ==
    [i \in 1..Len(s) |-> IF s[i] >= 97 /\ s[i] <= 122 THEN s[i] - 32 ELSE s[i]]

\* a request on the wire: the method, the headers in the order they were
\* added, and the body; or no request at all, when a header name or value
\* does not parse and send() fails with BraidError::Http
Request(method, headers, body) ==
    IF \E i \in 1..Len(headers) :
           ~is_header_name(headers[i].name) \/ ~is_header_value(headers[i].value)
    THEN [kind |-> "Http", value |-> <<>>]
    ELSE [kind |-> "Request",
          value |-> [method |-> method,
                     headers |-> [i \in 1..Len(headers) |->
                                     [name |-> to_lowercase(headers[i].name),
                                      value |-> headers[i].value]],
                     body |-> body]]

\* fetch_internal, up to send(): the method from request.method, the extra
\* headers, then Version, Parents, Subscribe, Peer and Merge-Type as far as
\* the request has them, and the body when it is not empty
fetch_request(request) ==
    LET m == to_uppercase(request.method)
        method == IF m = POST_ THEN "POST"
                  ELSE IF m = PUT_ THEN "PUT"
                  ELSE IF m = DELETE_ THEN "DELETE"
                  ELSE IF m = PATCH_ THEN "PATCH"
                  ELSE "GET"
        braid ==
            (IF request.version.kind = "Some"
             THEN <<[name |-> VERSION, value |-> format_version_header(request.version.value)]>>
             ELSE <<>>)
            \o (IF request.parents.kind = "Some"
                THEN <<[name |-> PARENTS, value |-> format_version_header(request.parents.value)]>>
                ELSE <<>>)
            \o (IF request.subscribe
                THEN <<[name |-> SUBSCRIBE, value |-> TRUE_]>>
                ELSE <<>>)
            \o (IF request.peer.kind = "Some"
                THEN <<[name |-> PEER, value |-> request.peer.value]>>
                ELSE <<>>)
            \o (IF request.merge_type.kind = "Some"
                THEN <<[name |-> MERGE_TYPE, value |-> request.merge_type.value]>>
                ELSE <<>>)
    IN Request(method, request.extra_headers \o braid, request.body)

\* subscribe, up to send(): self.client.get(url) with the Subscribe header
subscribe_request(request) ==
    Request("GET", <<[name |-> SUBSCRIBE, value |-> TRUE_]>>, <<>>)

\* the request descriptors: a method in any case, versions, a peer "p", a
\* merge type "s", an extra header "X: 1" or one whose name is no token, a
\* body "b"
BraidRequests ==
    [method : {GET_, to_lowercase(POST_), PUT_, DELETE_, PATCH_},
     version : {None, Some(<<>>), Some(<< <<118>> >>)},
     parents : {None, Some(<< <<118>> >>)},
     subscribe : BOOLEAN,
     peer : {None, Some(<<112>>)},
     merge_type : {None, Some(<<115>>)},
     extra_headers : {<<>>, <<[name |-> <<88>>, value |-> <<49>>]>>,
                      <<[name |-> <<97, 32, 98>>, value |-> <<49>>]>>},
     body : {<<>>, <<98>>}]

InitRequest ==
    /\ ParserIdle
    /\ overflow_checks = FALSE
    /\ config = [max_retries |-> 0, retry_delay_ms |-> 0]
    /\ FetchIdle
    /\ UtilIdle
    /\ SubIdle
    /\ RegIdle
    /\ codec_in \in BraidRequests
    /\ codec_out = <<>>

\* subscribe(url, request), and fetch with the same request and subscribe set
SendRequests ==
    /\ codec_out = <<>>
    /\ codec_out' = <<[subscribe |-> subscribe_request([codec_in EXCEPT !.subscribe = TRUE]),
                       fetch |-> fetch_request([codec_in EXCEPT !.subscribe = TRUE])]>>
    /\ UNCHANGED codec_in
    /\ UNCHANGED nonCodecVars

NextRequest == SendRequests

SpecRequest == InitRequest /\ [][NextRequest]_vars

(***************************************************************************)
(* Properties of the parser (checked under SpecParser).                    *)
(***************************************************************************)
\* the header map a frame carries, read off its own header block alone
FrameHeaders(f) ==
    InsertLines(EmptyHeaders, lines(SubSeq(f.head, 1, Len(f.head) - 4)))

\* the Message a frame stands for
FrameMessage(f) == [headers |-> FrameHeaders(f), body |-> f.body, patches |-> <<>>]

AllWellFormed == \A i \in 1..Len(frames) : frames[i] \in WellFormedFrames

\* the well-formed frames whose body does not contain the terminator
PlainFrames == {FrameBody5, FrameEmpty, FrameNoLen}

AllPlain == \A i \in 1..Len(frames) : frames[i] \in PlainFrames

\* the body length a Message declares in its own content-length header
DeclaredLength(m) ==
    IF ContentLengthKey \in DOMAIN m.headers
    THEN ParseUsize(m.headers[ContentLengthKey]).value
    ELSE 0

\* C1: once the whole stream has been fed, in whatever chunks, the Messages
\* returned over the feed calls are those a fresh parser returns when it is
\* fed the whole stream in one call.
C1_SplitFeedingIdempotent ==
    fed = Len(input) =>
        emitted = feed(NewParser, input, overflow_checks).messages

\* C2: a stream of k >= 1 well-formed frames (here with bodies free of the
\* terminator) given to a fresh parser in one feed call yields exactly the k
\* Messages of the frames, in order, each with the headers and the body of
\* its own frame only.
C2_OneFeedYieldsEveryFrame ==
    [][(AllPlain /\ fed = 0 /\ fed' = Len(input))
        => (/\ last'.result = "Ok"
            /\ emitted' = [i \in 1..Len(frames) |-> FrameMessage(frames[i])])]_vars

\* C3: every emitted Message has a body of exactly the length its own
\* content-length header declares (0 when absent), and on a stream of one
\* well-formed frame the body is the bytes that follow the header
\* terminator, whatever the chunking.
C3_BodyHasDeclaredLength ==
    \A i \in 1..Len(emitted) :
        /\ Len(emitted[i].body) = DeclaredLength(emitted[i])
        /\ (AllWellFormed /\ Len(frames) = 1) => emitted[i].body = frames[1].body

\* C4: when the first frame declares a body of n > 0 bytes (here a body
\* free of the terminator), every feed call that ends with the header block
\* complete and fewer than n body bytes delivered returns Ok with no Message
\* and leaves the parser in WaitingForBody; the call that delivers the n-th
\* body byte returns exactly one Message and leaves the parser in
\* WaitingForHeaders.
C4_WaitsForWholeBody ==
    [][(frames[1] \in PlainFrames /\ Len(frames[1].body) > 0 /\ fed' > fed)
        => LET H == Len(frames[1].head)
               n == Len(frames[1].body)
           IN /\ (fed' >= H /\ fed' < H + n)
                    => (/\ last'.result = "Ok"
                        /\ last'.count = 0
                        /\ parser'.state = "WaitingForBody")
              /\ (fed < H + n /\ fed' = H + n)
                    => (/\ last'.result = "Ok"
                        /\ last'.count = 1
                        /\ parser'.state = "WaitingForHeaders")]_vars

\* C5: the feed call that parses a header block whose content-length is not
\* a number returns HeaderParse; from then on the parser is in the Error
\* state and no feed call emits a Message.
C5_HeaderParseIsTerminal ==
    [][/\ (frames[1] = FrameBadLen /\ fed = 0 /\ fed' > fed /\ fed' >= Len(frames[1].head)
             /\ Len(frames) = 1)
            => last'.result = "HeaderParse"
       /\ header_error' => parser'.state = "Error"
       /\ header_error => emitted' = emitted]_vars

(***************************************************************************)
(* Properties of fetch (checked under SpecFetch).                          *)
(***************************************************************************)
\* a failure the retry policy calls retryable: a transport-level error or a
\* response whose status is retryable
RetryableFailure(t) ==
    \/ t.kind = "send_error"
    \/ t.kind = "response" /\ (~t.body_ok \/ is_retryable_status(t.status))

\* a failure status outside the retryable set (404, 410)
NonRetryableFailure(t) ==
    /\ t.kind = "response" /\ t.body_ok
    /\ t.status >= 400 /\ ~is_retryable_status(t.status)

\* C6: fetch never returns to its caller on an attempt that the server
\* answered with a retryable status while retries remain.
C6_RetryableStatusIsRetried ==
    (pc = "done" /\ outcome.kind = "response" /\ is_retryable_status(outcome.status))
        => attempt >= config.max_retries

\* C7: fetch sends at most max_retries + 1 requests, and when it returns on
\* a retryable failure (every earlier attempt was retried, so failed
\* retryably as well) it returns an error, after exactly max_retries retries.
C7_RetriesUntilExhausted ==
    /\ sent <= config.max_retries + 1
    /\ (pc = "done" /\ RetryableFailure(outcome))
        => (/\ result.kind = "Err"
            /\ attempt = config.max_retries
            /\ Len(sleeps) = config.max_retries)

\* C8: an attempt that fails non-retryably ends the fetch: fetch returns
\* that failure as an error, the failing request was sent once, and no
\* backoff wait follows it.
C8_NonRetryableReturnsAtOnce ==
    [][(pc = "sending" /\ sent' = sent + 1 /\ NonRetryableFailure(outcome'))
        => (/\ pc' = "done"
            /\ sleeps' = sleeps
            /\ result'.kind = "Err")]_vars

\* C9: when fetch returns on a failure status (not retryable, or retryable
\* with the retries exhausted) the caller holds an error that carries the
\* status, never a successful response.
C9_FailureStatusIsTypedError ==
    (/\ pc = "done" /\ outcome.kind = "response" /\ outcome.body_ok
     /\ outcome.status >= 400
     /\ (~is_retryable_status(outcome.status) \/ attempt = config.max_retries))
        => (/\ result.kind = "Err"
            /\ "status" \in DOMAIN result.error
            /\ result.error.status = outcome.status)

RECURSIVE Pow2(_)
Pow2(k) == IF k = 0 THEN 1 ELSE 2 * Pow2(k - 1)

\* C10: the attempt counter is the number of retries made so far (0 at the
\* first send, one more after each wait), and the wait that follows failed
\* attempt n is retry_delay_ms * 2^min(n, 10).
C10_BackoffSchedule ==
    /\ attempt = Len(sleeps)
    /\ pc = "sending" => sent = attempt
    /\ pc = "sleeping" => sent = attempt + 1
    /\ \A i \in 1..Len(sleeps) :
          sleeps[i] = config.retry_delay_ms * Pow2(IF i - 1 < 10 THEN i - 1 ELSE 10)
    /\ pc = "sleeping" =>
          delay = config.retry_delay_ms * Pow2(IF attempt < 10 THEN attempt ELSE 10)

\* twelve retries with base 100 ms: the third wait is 400 ms and the twelfth
\* (after failed attempt 11) is capped at 100 * 2^10
C10_Witness ==
    /\ config.retry_delay_ms = 100
    /\ Len(sleeps) = 12
    /\ sleeps[3] = 400
    /\ sleeps[12] = 102400

(***************************************************************************)
(* Properties of the utility functions (SpecBackoff, SpecStatus).          *)
(***************************************************************************)
\* backoff_delays[n + 1] is exponential_backoff(n, backoff_base)
DelayOf(n) == backoff_delays[n + 1]

\* C11 as stated: for every base the delay is strictly increasing in n for
\* 0 <= n <= 10, and for n >= 10 it equals the delay of n = 10.
C11_StrictlyIncreasingForEveryBase ==
    /\ \A m, n \in 0..(Len(backoff_delays) - 1) :
           (m < n /\ n <= 10) => DelayOf(m) < DelayOf(n)
    /\ \A n \in 0..(Len(backoff_delays) - 1) :
           n >= 10 => DelayOf(n) = DelayOf(10)

\* C11 amended: for a base greater than zero the delay is strictly
\* increasing in n for 0 <= n <= 10; for every base it is non-decreasing and
\* for n >= 10 it equals the delay of n = 10; for base zero every delay is
\* zero.
C11_IncreasingForPositiveBase ==
    /\ \A m, n \in 0..(Len(backoff_delays) - 1) :
           (m < n /\ n <= 10) =>
               IF backoff_base > 0 THEN DelayOf(m) < DelayOf(n)
               ELSE DelayOf(m) = 0 /\ DelayOf(n) = 0
    /\ \A n \in 0..(Len(backoff_delays) - 1) :
           n >= 10 => DelayOf(n) = DelayOf(10)

C11_Witness ==
    /\ backoff_base > 0
    /\ Len(backoff_delays) > 11
    /\ DelayOf(9) < DelayOf(10)
    /\ DelayOf(11) = DelayOf(10)

\* C12: is_retryable_status answers true exactly for 408, 425, 429, 502, 503
\* and 504, and false for every other 16-bit status.
C12_RetryableExactlySixCodes ==
    status_retryable # <<>> =>
        /\ status_in \in {408, 425, 429, 502, 503, 504} => status_retryable[1] = TRUE
        /\ status_in \notin {408, 425, 429, 502, 503, 504} => status_retryable[1] = FALSE

C12_Witness ==
    /\ status_in = 425
    /\ status_retryable = <<TRUE>>

(***************************************************************************)
(* Properties of subscribe and Subscription (SpecSubscribe,                *)
(* FairSubscribe).                                                         *)
(***************************************************************************)
\* C13: a subscribe call answered with a status s other than 209 returns
\* InvalidSubscriptionStatus(s), and then no channel has been created and no
\* forwarding task has been started.
C13_InvalidStatusBeforeChannel ==
    (sub.pc = "returned" /\ sub.status \notin {0, 209}) =>
        /\ sub.result = [kind |-> "Err",
                         error |-> [kind |-> "InvalidSubscriptionStatus",
                                    status |-> sub.status]]
        /\ channel = NoChannel
        /\ task = NoTask
        /\ pushed = <<>>

C13_Witness ==
    /\ sub.pc = "returned"
    /\ sub.status = 200
    /\ sub.result.kind = "Err"

ErrPositions == {i \in 1..Len(pushed) : pushed[i].kind = "Err"}

\* C15: at most one Err item ever enters the channel; it is the last item,
\* the task has terminated and the channel is closed after it; a task that
\* ended on a parse or transport error while the consumer was there pushed
\* exactly one.
C15_OneErrThenClosed ==
    /\ Cardinality(ErrPositions) <= 1
    /\ \A i \in ErrPositions :
           /\ i = Len(pushed)
           /\ task.pc = "ended"
           /\ task.exit = "error"
           /\ ~channel.tx_open
    /\ (task.exit = "error" /\ channel.rx_open) => Cardinality(ErrPositions) = 1

C15_Witness ==
    /\ Len(pushed) >= 2
    /\ pushed[1].kind = "Ok"
    /\ pushed[Len(pushed)] = ErrItem("HeaderParse")
    /\ task.exit = "error"

\* C16: the channel never holds more than 100 undelivered items, and while
\* it is full the task that wants to push stays where it is: it keeps its
\* item, pushes nothing and reads no further chunk, until the consumer has
\* taken an item.
C16_BoundedAndSuspendedWhenFull ==
    /\ [](channel.created => Len(channel.queue) <= 100)
    /\ [][(/\ channel.created
           /\ channel.rx_open
           /\ Len(channel.queue) = 100
           /\ task.pc \in {"send", "send_err"})
          => (task' = task /\ pushed' = pushed /\ fed' = fed /\ parser' = parser)]_vars

C16_Witness ==
    /\ channel.created
    /\ Len(channel.queue) = 100
    /\ task.pc = "send"
    /\ Len(delivered) > 0

\* C17: once the consumer side has been dropped nothing more is delivered
\* or accepted by the channel, nothing is reported to the caller, and a
\* push attempt of the task ends the task.
C17_NothingAfterDrop ==
    [][(channel.created /\ ~channel.rx_open) =>
          /\ delivered' = delivered
          /\ pushed' = pushed
          /\ got_none' = got_none
          /\ sub' = sub
          /\ channel'.queue = <<>>
          /\ (task.pc \in {"send", "send_err"} /\ task' # task) =>
                 (task'.pc = "ended" /\ task'.exit \in {"receiver_dropped", "error"})]_vars

C17_Witness ==
    /\ channel.created
    /\ ~channel.rx_open
    /\ channel.woken
    /\ task.exit = "receiver_dropped"

\* C18: next() returns None only after the task has terminated and every
\* item the channel accepted has been returned; and once the server has
\* ended the stream and its last byte has reached the task, a consumer that
\* keeps calling next() is eventually returned every Update parsed and then
\* None.
C18_DrainedThenNone ==
    /\ [](got_none => (task.pc = "ended" /\ channel.queue = <<>> /\ delivered = pushed))
    /\ (channel.created /\ server = "ended" /\ fed = Len(input))
          ~> (~channel.rx_open \/ (got_none /\ delivered = pushed /\ task.pending = <<>>))

C18_Witness ==
    /\ got_none
    /\ server = "ended"
    /\ task.exit = "stream_end"
    /\ Len(delivered) >= 2

(***************************************************************************)
(* Properties of the registry (SpecRegistry).                              *)
(***************************************************************************)
\* the ResourceStates constructed for a resource id
ConstructedFor(id) == {o \in 1..Len(objects) : objects[o].resource_id = id}

\* C19: however the calls of get_or_create_resource with one id interleave,
\* through whichever handles, at most one ResourceState is ever constructed
\* for the id, it is the one the map holds, and every call returns the Arc
\* of that one object.
C19_OneStatePerId ==
    /\ \A id \in ResourceIds : Cardinality(ConstructedFor(id)) <= 1
    /\ \A id \in DOMAIN resources : ConstructedFor(id) = {resources[id]}
    /\ \A r \in returned :
           r.resource_id \in DOMAIN resources /\ r.arc = resources[r.resource_id]
    /\ \A t \in Tasks :
           tasks[t].pc = "return" => tasks[t].ret = resources[tasks[t].resource_id]

C19_Witness ==
    \E t, u \in Tasks :
        /\ tasks[t].pc = "return"
        /\ tasks[u].pc = "write"
        /\ tasks[t].resource_id = tasks[u].resource_id
        /\ tasks[t].via # tasks[u].via
        /\ \E r \in returned : r.resource_id = tasks[t].resource_id
        /\ calls = 3

\* C20: a step of a get_or_create_resource call whose id is in the map
\* changes neither the map nor any ResourceState (engine, agent, last_sync),
\* whatever initial_agent_id it was given, and the call returns the Arc the
\* map holds.
C20_ExistingEntryUnchanged ==
    [][\A t \in Tasks :
          (/\ tasks[t].pc \in {"write", "entry", "or_insert_with", "return"}
           /\ tasks[t].resource_id \in DOMAIN resources
           /\ tasks'[t] # tasks[t])
          => /\ resources' = resources
             /\ objects' = objects
             /\ tasks[t].pc = "or_insert_with" =>
                    tasks'[t].ret = resources[tasks[t].resource_id]]_vars

C20_Witness ==
    \E t \in Tasks :
        /\ tasks[t].pc = "return"
        /\ ~tasks[t].vacant
        /\ tasks[t].ret = resources[tasks[t].resource_id]
        /\ tasks[t].agent_id # objects[tasks[t].ret].crdt.agent_id
        /\ clock > objects[tasks[t].ret].last_sync

(***************************************************************************)
(* Properties of the manager's operations (checked under SpecManager).     *)
(***************************************************************************)

\* C21: no step of get_resource, get_resource_state, get_merge_quality or
\* list_resources changes the map or any ResourceState; for an id the map
\* has no entry for, the three lookups return None and leave it absent, and
\* list_resources returns the keys of the map; an id enters the map only in
\* a step of a get_or_create_resource or apply_* call that names it.
C21_ReadsCreateNothing ==
    [][/\ \A t \in Tasks :
             (tasks[t].op \in LookupOps /\ tasks'[t] # tasks[t])
             => /\ resources' = resources
                /\ objects' = objects
                /\ (/\ tasks[t].pc = "get"
                    /\ tasks[t].op # "list_resources"
                    /\ tasks[t].resource_id \notin DOMAIN resources)
                   => /\ last_return'.op = tasks[t].op
                      /\ last_return'.resource_id = tasks[t].resource_id
                      /\ last_return'.out.kind = "None"
                      /\ tasks'[t].pc = "idle"
                /\ (tasks[t].pc = "get" /\ tasks[t].op = "list_resources")
                   => /\ last_return'.out.kind = "Vec"
                      /\ last_return'.out.value = DOMAIN resources'
       /\ \A id \in DOMAIN resources' \ DOMAIN resources :
             \E t \in Tasks :
                 /\ tasks[t].op \in ApplyOps \cup {"get_or_create_resource"}
                 /\ tasks[t].resource_id = id
                 /\ tasks'[t] # tasks[t]]_vars

C21_Witness ==
    /\ last_return.op \in {"get_resource", "get_resource_state", "get_merge_quality"}
    /\ last_return.out.kind = "None"
    /\ last_return.resource_id \notin DOMAIN resources
    /\ DOMAIN resources # {}
    /\ \E t \in Tasks : tasks[t].op = "list_resources" /\ tasks[t].pc = "get"

\* C22: apply_update(id, content, agent) for an id the map has no entry for
\* constructs the ResourceState and returns Ok, and a get_resource_state(id)
\* that reads the ResourceState when that apply_update is the only edit made
\* to it returns a snapshot whose content is content.
C22_FirstUpdateIsTheContent ==
    [][\A t \in Tasks :
          /\ (/\ tasks[t].op = "apply_update"
              /\ tasks[t].pc = "or_insert_with"
              /\ tasks[t].vacant
              /\ tasks'[t] # tasks[t])
             => /\ tasks[t].resource_id \in DOMAIN resources'
                /\ tasks'[t].ret = resources'[tasks[t].resource_id]
          /\ (tasks[t].op = "apply_update" /\ tasks[t].pc = "export" /\ tasks'[t] # tasks[t])
             => last_return'.out.kind = "Ok"
          /\ (/\ tasks[t].op = "get_resource_state"
              /\ tasks[t].pc = "query"
              /\ tasks'[t] # tasks[t]
              /\ Len(objects[tasks[t].ret].edits) = 1
              /\ objects[tasks[t].ret].edits[1].op = "apply_update"
              /\ objects[tasks[t].ret].edits[1].created)
             => /\ last_return'.out.kind = "Some"
                /\ last_return'.resource_id = objects[tasks[t].ret].resource_id
                /\ last_return'.out.value.content = objects[tasks[t].ret].edits[1].text]_vars

C22_Witness ==
    /\ last_return.op = "get_resource_state"
    /\ last_return.out.kind = "Some"
    /\ last_return.out.value.content = <<"h", "i">>
    /\ last_return.resource_id \in DOMAIN resources
    /\ objects[resources[last_return.resource_id]].edits =
           <<[op |-> "apply_update", text |-> <<"h", "i">>, created |-> TRUE]>>

\* C23: apply_update replaces the document: when its edit is made, the
\* content of the resource is the content it was called with, whatever the
\* resource held before.
C23_UpdateReplacesContent ==
    [][\A t \in Tasks :
          (tasks[t].op = "apply_update" /\ tasks[t].pc = "edit" /\ tasks'[t] # tasks[t])
          => objects'[tasks[t].ret].crdt.content = tasks[t].text]_vars

\* the tasks inside the write guard and inside the read guard of ResourceState o
StateWriters(o) == {t \in Tasks : tasks[t].pc \in {"edit", "export"} /\ tasks[t].ret = o}
StateReaders(o) == {t \in Tasks : tasks[t].pc = "query" /\ tasks[t].ret = o}

\* C24: each ResourceState is held by nobody, by one apply_* call alone, or
\* by get_resource_state / get_merge_quality calls only: a writer never
\* overlaps another writer or a reader of the same resource.
C24_OneWriterOrReaders ==
    \A o \in 1..Len(objects) :
        /\ state_locks[o].writers = StateWriters(o)
        /\ state_locks[o].readers = StateReaders(o)
        /\ Cardinality(StateWriters(o)) <= 1
        /\ StateWriters(o) # {} => StateReaders(o) = {}

\* two readers hold one ResourceState at once
C24_Witness ==
    \E o \in 1..Len(objects) :
        /\ Cardinality(StateReaders(o)) = 2
        /\ state_locks[o].readers = StateReaders(o)

\* the tasks inside the write guard and inside the read guard of the map
MapWriters == {t \in Tasks : tasks[t].pc \in {"entry", "or_insert_with", "return"}}
MapReaders == {t \in Tasks : tasks[t].pc = "get"}

\* C25: the map is held by nobody, by one get_or_create_resource alone or
\* by lookups only, and an entry is inserted only by the one task that holds
\* the map for writing, while no lookup holds it.
C25_InsertionsExcludeLookups ==
    /\ [](/\ resources_lock.writers = MapWriters
          /\ resources_lock.readers = MapReaders
          /\ Cardinality(MapWriters) <= 1
          /\ MapWriters # {} => MapReaders = {})
    /\ [][resources' # resources =>
             \E t \in Tasks :
                 /\ MapWriters = {t}
                 /\ MapReaders = {}
                 /\ tasks[t].pc = "or_insert_with"
                 /\ tasks'[t].pc = "return"]_vars

\* two lookups hold the map at once
C25_Witness ==
    /\ Cardinality(MapReaders) = 2
    /\ resources_lock.readers = MapReaders
    /\ resources_lock.writers = {}
    /\ DOMAIN resources # {}

(***************************************************************************)
(* Properties of the header codec.                                         *)
(***************************************************************************)

\* C26: for every header text parse_version_header returns a list of
\* versions (no error, no abort), and the empty list for the empty text
\* (checked under SpecVersionHeader).
C26_ParseVersionNeverFails ==
    codec_out # <<>> =>
        /\ codec_out[1].kind = "Ok"
        /\ codec_in = <<>> => codec_out[1].value = <<>>

\* no version of the list holds a comma
NoComma(versions) ==
    \A i \in 1..Len(versions) : \A j \in 1..Len(versions[i]) : versions[i][j] # 44

IsNumber(s) ==
    LET d == IF s # <<>> /\ s[1] = 43 THEN Tail(s) ELSE s IN
    d # <<>> /\ \A i \in 1..Len(d) : d[i] \in 48..57

NumberValue(s) == DigitsValue(IF s[1] = 43 THEN Tail(s) ELSE s)

\* what is left of a trimmed heartbeat text without its suffix "ms" or "s"
WithoutSuffix(t) ==
    IF ends_with(t, <<109, 115>>) THEN SubSeq(t, 1, Len(t) - 2)
    ELSE IF ends_with(t, <<115>>) THEN SubSeq(t, 1, Len(t) - 1)
    ELSE t

\* C28: after trimming, protocol::parse_heartbeat returns floor(n / 1000)
\* for "<n>ms", n for "<n>s" and n for "<n>", and fails with HeaderParse
\* whenever what is left without the suffix is not a non-negative integer
\* (checked under SpecHeartbeat).
C28_HeartbeatSeconds ==
    codec_out # <<>> =>
        LET t == trim(codec_in)
            n == WithoutSuffix(t)
        IN IF ~IsNumber(n) THEN codec_out[1] = HeaderParse
           ELSE IF ends_with(t, <<109, 115>>)
           THEN /\ codec_out[1].kind = "Ok"
                /\ 1000 * codec_out[1].value <= NumberValue(n)
                /\ NumberValue(n) < 1000 * (codec_out[1].value + 1)
           ELSE codec_out[1] = Ok(NumberValue(n))

\* " 1500ms" is 1 second: truncated, not rounded
C28_Witness ==
    /\ codec_out = <<Ok(1)>>
    /\ codec_in = <<32, 49, 53, 48, 48, 109, 115>>

\* C29: client::parse_heartbeat returns a duration of n seconds for "<n>s"
\* and for "<n>", and of n milliseconds for "<n>ms" (durations in
\* milliseconds; checked under SpecClientHeartbeat).
C29_ClientHeartbeatFormats ==
    codec_out # <<>> =>
        LET t == trim(codec_in)
            n == WithoutSuffix(t)
        IN IsNumber(n) =>
               IF ends_with(t, <<109, 115>>)
               THEN codec_out[1] = Ok(NumberValue(n))
               ELSE codec_out[1] = Ok(1000 * NumberValue(n))

\* the value of the last entry of the header map with a name and a text
\* value (<<>> stands for no such entry)
LastValue(headers, name) ==
    LET at == {i \in 1..Len(headers) : headers[i].name = name /\ to_str_ok(headers[i].value)}
    IN IF at = {} THEN <<>>
       ELSE <<headers[CHOOSE i \in at : \A j \in at : j <= i].value>>

\* a version header text that is not a list of quoted or unquoted versions:
\* a part that is one double quote
MalformedVersions(value) ==
    \E i \in 1..Len(split(value, 44)) : trim(split(value, 44)[i]) = <<34>>

\* C30: from_headers completes for every header map; the raw map holds the
\* value of every header whose value is text, the malformed ones included;
\* version, parents and heartbeat are absent when their header is malformed
\* and hold the parsed value otherwise (checked under SpecFromHeaders).
C30_FromHeadersCompletes ==
    codec_out # <<>> =>
        /\ codec_out[1].kind = "BraidState"
        /\ \A name \in HeaderNames :
               LastValue(codec_in, name) # <<>> =>
                   /\ name \in DOMAIN codec_out[1].value.headers
                   /\ codec_out[1].value.headers[name] = LastValue(codec_in, name)[1]
        /\ LastValue(codec_in, VERSION) # <<>> =>
               IF MalformedVersions(LastValue(codec_in, VERSION)[1])
               THEN codec_out[1].value.version = None
               ELSE codec_out[1].value.version.kind = "Some"
        /\ LastValue(codec_in, PARENTS) # <<>> =>
               IF MalformedVersions(LastValue(codec_in, PARENTS)[1])
               THEN codec_out[1].value.parents = None
               ELSE codec_out[1].value.parents.kind = "Some"
        /\ LastValue(codec_in, HEARTBEATS) # <<>> =>
               IF IsNumber(WithoutSuffix(trim(LastValue(codec_in, HEARTBEATS)[1])))
               THEN codec_out[1].value.heartbeat.kind = "Some"
               ELSE codec_out[1].value.heartbeat = None
        /\ LastValue(codec_in, PEER) # <<>> =>
               codec_out[1].value.peer = Some(LastValue(codec_in, PEER)[1])

(***************************************************************************)
(* Further properties of the parser (checked under SpecParser).            *)
(***************************************************************************)

C37_BodiesAreOpaque ==
    (/\ AllWellFormed
     /\ \E k \in 1..Len(frames) : frames[k] = FrameTermBody
     /\ fed = Len(input))
    => emitted = [i \in 1..Len(frames) |-> FrameMessage(frames[i])]

\* C39: in every reachable parser state read_body_length is the number of
\* bytes held in body_buffer and is at most expected_body_length, and no
\* feed call aborts on the subtraction expected_body_length -
\* read_body_length.
C39_ReadLengthIsBufferLength ==
    /\ parser.read_body_length = Len(parser.body_buffer)
    /\ parser.read_body_length <= parser.expected_body_length
    /\ last.result # "Panic"

(***************************************************************************)
(* Further properties of subscribe (checked under SpecSubscribe).          *)
(***************************************************************************)
\* the frames in front of the first header block with a malformed
\* content-length
FramesBeforeBadLen ==
    {k \in 1..Len(frames) : \A i \in 1..k : frames[i] # FrameBadLen}

\* C38: on a stream whose first j frames are well-formed and whose next
\* header block has a malformed content-length, the Err that next() returns
\* is item j + 1, and the j items in front of it are the Ok Updates of the j
\* frames, in order, however the stream is split into chunks.
C38_OkItemsBeforeErr ==
    \A i \in 1..Len(delivered) :
        (delivered[i] = ErrItem("HeaderParse") /\ frames # Burst) =>
            /\ i = Cardinality(FramesBeforeBadLen) + 1
            /\ \A k \in 1..(i - 1) :
                   /\ delivered[k].kind = "Ok"
                   /\ delivered[k].update = message_to_update(FrameMessage(frames[k]))

(***************************************************************************)
(* Further properties of the manager (checked under SpecManager).          *)
(***************************************************************************)
\* task t holds the lock of the map; task t holds the lock of a ResourceState
HoldsMap(t) == t \in resources_lock.writers \cup resources_lock.readers
HoldsState(t) ==
    \E o \in 1..Len(state_locks) : t \in state_locks[o].writers \cup state_locks[o].readers

\* C35: a task outside a call holds no lock, and a task that holds the lock
\* of the map neither holds nor is acquiring the lock of a ResourceState.
C35_NoLockKeptOrNested ==
    \A t \in Tasks :
        /\ tasks[t].pc = "idle" => (~HoldsMap(t) /\ ~HoldsState(t))
        /\ HoldsMap(t) => (~HoldsState(t) /\ tasks[t].pc \notin {"state_write", "state_read"})

\* one task edits a ResourceState while another one holds the map
C35_Witness ==
    \E t, u \in Tasks :
        /\ tasks[t].pc = "export"
        /\ HoldsState(t)
        /\ ~HoldsMap(t)
        /\ HoldsMap(u)
        /\ last_return.op \in ApplyOps

\* the content an empty document has after a sequence of edits, in order
RECURSIVE Replay(_, _)
Replay(content, edits) ==
    IF edits = <<>> THEN content
    ELSE LET e == Head(edits)
             next == IF e.op = "apply_remote_delete"
                     THEN SubSeq(content, 2, Len(content))
                     ELSE e.text \o content
         IN Replay(next, Tail(edits))

\* the edit a task is making
EditOf(t) == [op |-> tasks[t].op, text |-> tasks[t].text, created |-> tasks[t].vacant]

\* C36: the edits of a resource are made one after the other: the content is
\* always the result of all edits made so far, in the order they were made
\* (no lost update); the step that makes an edit adds it to that order and
\* sets last_sync; and the snapshot an apply_* call returns is the state
\* right after its own edit, which is still the last one.
C36_EditsAreSerialized ==
    /\ [](\A o \in 1..Len(objects) :
              objects[o].crdt.content = Replay(<<>>, objects[o].edits))
    /\ [][\A t \in Tasks :
             /\ (tasks[t].pc = "edit" /\ tasks'[t] # tasks[t])
                => /\ objects'[tasks[t].ret].edits =
                          Append(objects[tasks[t].ret].edits, EditOf(t))
                   /\ objects'[tasks[t].ret].last_sync = clock
             /\ (tasks[t].pc = "export" /\ tasks'[t] # tasks[t])
                => LET edits == objects[tasks[t].ret].edits IN
                   /\ edits # <<>>
                   /\ edits[Len(edits)] = EditOf(t)
                   /\ last_return'.out.kind = "Ok"
                   /\ last_return'.out.value.content = Replay(<<>>, edits)]_vars

\* two calls on one resource: one has made its edit and is about to return,
\* the other one waits for the ResourceState
C36_Witness ==
    \E t, u \in Tasks :
        /\ tasks[t].pc = "export"
        /\ tasks[u].pc = "state_write"
        /\ tasks[u].ret = tasks[t].ret
        /\ tasks[u].op # tasks[t].op
        /\ Len(objects[tasks[t].ret].edits) = 2
        /\ clock > 0

\* C40: the registry is deadlock-free: under fair scheduling every call that
\* was made, of any operation on any resource id, returns.
C40_EveryCallReturns ==
    \A t \in Tasks : (tasks[t].pc # "idle") ~> (tasks[t].pc = "idle")

\* a call has waited for a lock another call held, and has returned since:
\* both tasks are idle again after all the calls were made
C40_Witness ==
    /\ calls = MaxCalls
    /\ \A t \in Tasks : tasks[t].pc = "idle"
    /\ \E o \in 1..Len(objects) : Len(objects[o].edits) = 2
    /\ last_return.op \in LookupOps

(***************************************************************************)
(* Properties of the encoding of an Update (checked under SpecSendUpdate). *)
(***************************************************************************)
Encoded == codec_out # <<>> /\ codec_out[1].kind = "Response"

\* C31: the payload and the patch headers of an encoded Update: a body is
\* the payload and no Patches or Content-Range header is derived; without a
\* body a patch list that is not empty gives Patches (the count),
\* Content-Range (unit, blank, range of the first patch) and the first
\* patch's content as payload; without a body and without patches, or with
\* an empty list, there is no payload and no Patches header.
C31_PayloadAndPatchHeaders ==
    Encoded =>
        LET u == codec_in
            resp == codec_out[1].value
        IN IF u.body.kind = "Some"
           THEN /\ resp.body.kind = "Some"
                /\ resp.body.value = u.body.value
                /\ PATCHES \notin DOMAIN resp.headers
                /\ CONTENT_RANGE \notin DOMAIN resp.headers
           ELSE IF u.patches.kind = "Some" /\ u.patches.value # <<>>
           THEN /\ PATCHES \in DOMAIN resp.headers
                /\ resp.headers[PATCHES] = to_string(Len(u.patches.value))
                /\ CONTENT_RANGE \in DOMAIN resp.headers
                /\ resp.headers[CONTENT_RANGE] =
                       u.patches.value[1].unit \o <<32>> \o u.patches.value[1].range
                /\ resp.body.kind = "Some"
                /\ resp.body.value = u.patches.value[1].content
           ELSE /\ resp.body.kind = "None"
                /\ PATCHES \notin DOMAIN resp.headers

\* C32: an encoded Update has the status of the Update, whatever the number
\* is, and the encoding never aborts.
C32_StatusPassesThrough ==
    codec_out # <<>> =>
        /\ codec_out[1].kind = "Response"
        /\ codec_out[1].value.status = codec_in.status

(***************************************************************************)
(* Properties of the requests (checked under SpecRequest).                 *)
(***************************************************************************)
\* C33: the request subscribe puts on the wire is the request fetch sends
\* for the same descriptor with subscribe set: the same method, the same
\* headers (Subscribe, Version, Parents, Peer, Merge-Type and the extra
\* ones) and the same body.
C33_SubscribeSendsTheFetchRequest ==
    codec_out # <<>> =>
        /\ codec_out[1].subscribe.kind = codec_out[1].fetch.kind
        /\ codec_out[1].subscribe.kind = "Request" =>
               /\ codec_out[1].subscribe.value.method = codec_out[1].fetch.value.method
               /\ codec_out[1].subscribe.value.body = codec_out[1].fetch.value.body
               /\ codec_out[1].subscribe.value.headers = codec_out[1].fetch.value.headers
====
